---- MODULE Spec2Model ----
(***************************************************************************)
(* t9s: a terminal dashboard for a workflow service.                       *)
(*                                                                         *)
(* The model follows the source: the reducer App::update (src/src/app.rs)  *)
(* is the operator update(s, a, now) on a record s holding the fields of   *)
(* struct App; the kind registry (src/src/kinds/mod.rs), the event mapper  *)
(* (src/src/event.rs), the main loop (src/src/main.rs), the worker         *)
(* (src/src/worker.rs) and the deep-link codec (src/src/nav/uri.rs) are    *)
(* operators and actions over it.                                          *)
(*                                                                         *)
(* Conventions.  Option<T>: None is <<>>, Some(x) is <<x>>.  A String is a *)
(* sequence of code points where the text is computed on (the codec, the   *)
(* query composition) and an atom where it is only stored and compared.    *)
(* Instants are whole seconds of the clock `now`.                          *)
(***************************************************************************)
EXTENDS Integers, Sequences, FiniteSets, TLC

VARIABLES
    app,        \* the App value owned by run_tui
    requests,   \* CliRequest channel: main loop -> worker
    results,    \* Action channel: worker -> main loop
    effects,    \* the Effects returned by the step just taken
    event,      \* the event / Action the step just taken handled
    now,        \* the clock, in seconds
    crashed,    \* the process died of a failed arithmetic check
    worker,     \* the worker task: calls in flight, requests taken, answers sent
    codec,      \* deep-link codec run: location, uri, parse result
    compose     \* query-composition run: schedule id, filter, result

vars == <<app, requests, results, effects, event, now, crashed, worker, codec,
          compose>>

\* the variables of the running program
sys == <<app, requests, results, effects, event, now, crashed, worker>>

None == <<>>
Some(x) == <<x>>
IsSome(o) == o # <<>>
Unwrap(o) == o[1]

Min(a, b) == IF a <= b THEN a ELSE b
Max(a, b) == IF a >= b THEN a ELSE b

(***************************************************************************)
(* Bounds of the model.                                                    *)
(***************************************************************************)
MaxBase == 70          \* largest --poll-interval explored (seconds)
MaxBaseHigh == 1       \* largest --poll-interval explored, in units of 2^59 seconds
MaxErrors == 8         \* consecutive Error actions explored
MaxRows == 22          \* rows a loaded workflow collection may grow to
MaxQueue == 3          \* requests and Actions in flight after a step that sends
MaxKeyQueue == 2       \* the same after an operation key that sends
MaxUnclamped == 2      \* steps up from usize::MAX of a cursor no table has clamped
MaxLog == 4            \* requests the worker's log follows
MaxScroll == 1         \* lines a detail view is scrolled down
MaxShown == 3          \* rows of a collection that is opened and scrolled
MaxTime == 4           \* clock ticks explored
MaxStr == 2            \* length of the schedule ids and filters composed
MaxUriStr == 1         \* length of the strings in the Locations encoded
MaxRoute == 5          \* path segments after the namespace of a URI parsed

(***************************************************************************)
(* Integer widths.  usize is 64 bits in the program; the model keeps the   *)
(* wrap-around structure at 30 bits, TLC's integers being 32 bits wide.    *)
(* Every row count of the model is far below either limit.                 *)
(***************************************************************************)
USIZE_MAX == 2^30 - 1
U16_MAX == 65535

\* an addition that wraps
saturating_add_wrapping(x, d, max) == (x + d) % (max + 1)
saturating_add(x, d, max) == IF x + d > max THEN max ELSE x + d
\* a u64 number of seconds is hi * 2^59 + lo, with lo below 2^59: the model
\* keeps the five high bits apart, TLC's integers being 32 bits wide
U64_HI == 32
Secs(n) == [hi |-> 0, lo |-> n]
HugeSecs(hi, lo) == [hi |-> hi, lo |-> lo]
\* x * m in u64, for m a power of two up to 32: the wrapped product and whether
\* it overflowed
u64_mul(x, m) ==
    [value |-> [hi |-> (x.hi * m) % U64_HI, lo |-> x.lo * m],
     overflow |-> x.hi * m >= U64_HI]
\* x.min(n)
u64_min(x, n) == IF x.hi > 0 THEN Secs(n) ELSE Secs(Min(x.lo, n))
\* elapsed >= d, for an elapsed time of a few seconds
duration_ge(elapsed, d) == d.hi = 0 /\ elapsed >= d.lo

saturating_sub(x, d) == IF x - d < 0 THEN 0 ELSE x - d

(***************************************************************************)
(* Kind registry, src/src/kinds/mod.rs                                     *)
(***************************************************************************)
KindId == {"WorkflowExecution", "Schedule"}
OperationId == {"CancelWorkflow", "TerminateWorkflow", "PauseSchedule",
                "TriggerSchedule", "DeleteSchedule"}

OpSpec(id, key, confirm) == [id |-> id, key |-> key, requires_confirm |-> confirm]

WORKFLOW_OPS == << OpSpec("CancelWorkflow", "c", TRUE),
                   OpSpec("TerminateWorkflow", "t", TRUE) >>

SCHEDULE_OPS == << OpSpec("PauseSchedule", "p", FALSE),
                   OpSpec("TriggerSchedule", "T", TRUE),
                   OpSpec("DeleteSchedule", "d", TRUE) >>

kind_operations(kind) ==
    IF kind = "WorkflowExecution" THEN WORKFLOW_OPS ELSE SCHEDULE_OPS

\* .iter().find(p): the first element satisfying p, as an Option
FindFirst(seq, P(_)) ==
    LET hits == {i \in 1..Len(seq) : P(seq[i])}
    IN IF hits = {} THEN None
       ELSE Some(seq[CHOOSE i \in hits : \A j \in hits : i <= j])

operation_spec(kind, op_id) ==
    FindFirst(kind_operations(kind), LAMBDA o : o.id = op_id)

operation_for_key(kind, key) ==
    LET hit == FindFirst(kind_operations(kind), LAMBDA o : o.key = key)
    IN IF IsSome(hit) THEN Some(Unwrap(hit).id) ELSE None

WORKFLOW_DETAIL_TABS == <<"Summary", "Input/Output", "History",
                          "Pending Activities", "Task Queue">>

detail_tabs_for_kind(kind) ==
    IF kind = "WorkflowExecution" THEN Some(WORKFLOW_DETAIL_TABS) ELSE None

detail_tab_count_six(kind) == 6
detail_tab_count(kind) ==
    LET tabs == detail_tabs_for_kind(kind)
    IN IF IsSome(tabs) THEN Len(Unwrap(tabs)) ELSE 0

\* OperationTarget
TargetWorkflow(id, run) == [tag |-> "Workflow", id |-> id, run_id |-> run]
TargetSchedule(id) == [tag |-> "Schedule", id |-> id, run_id |-> None]

\* Effects are records; `tag` is the variant
Eff(tag) == [tag |-> tag]
EffWf(tag, id, run) == [tag |-> tag, id |-> id, run_id |-> run]
EffSch(tag, id) == [tag |-> tag, id |-> id]

workflow_cancel_effects(target, s) ==
    IF target.tag = "Workflow"
    THEN << EffWf("CancelWorkflow", target.id, target.run_id) >> ELSE << >>

workflow_terminate_effects(target, s) ==
    IF target.tag = "Workflow"
    THEN << EffWf("TerminateWorkflow", target.id, target.run_id) >> ELSE << >>

schedule_trigger_effects(target, s) ==
    IF target.tag = "Schedule"
    THEN << EffSch("TriggerSchedule", target.id) >> ELSE << >>

schedule_delete_effects(target, s) ==
    IF target.tag = "Schedule"
    THEN << EffSch("DeleteSchedule", target.id) >> ELSE << >>

schedule_pause_effects(target, s) ==
    IF target.tag # "Schedule" THEN << >>
    ELSE IF ~IsSome(s.selected_schedule) THEN << >>
    ELSE IF Unwrap(s.selected_schedule).schedule_id # target.id THEN << >>
    ELSE << [tag |-> "PauseSchedule", id |-> target.id,
             pause |-> (Unwrap(s.selected_schedule).state # "Paused")] >>

\* OPERATION_EFFECTS, looked up by operation_effect_spec(op, kind)
OPERATION_EFFECTS ==
    << [op |-> "CancelWorkflow", kind |-> "WorkflowExecution"],
       [op |-> "TerminateWorkflow", kind |-> "WorkflowExecution"],
       [op |-> "TriggerSchedule", kind |-> "Schedule"],
       [op |-> "DeleteSchedule", kind |-> "Schedule"],
       [op |-> "PauseSchedule", kind |-> "Schedule"] >>

operation_effect_spec(op, kind) ==
    FindFirst(OPERATION_EFFECTS, LAMBDA e : e.op = op /\ e.kind = kind)

to_effects(op, target, s) ==
    CASE op = "CancelWorkflow" -> workflow_cancel_effects(target, s)
      [] op = "TerminateWorkflow" -> workflow_terminate_effects(target, s)
      [] op = "TriggerSchedule" -> schedule_trigger_effects(target, s)
      [] op = "DeleteSchedule" -> schedule_delete_effects(target, s)
      [] op = "PauseSchedule" -> schedule_pause_effects(target, s)

(***************************************************************************)
(* Strings as sequences of code points                                     *)
(***************************************************************************)
S_temporal == << 116, 101, 109, 112, 111, 114, 97, 108 >>  \* "temporal"
S_tui == << 116, 117, 105 >>  \* "tui"
S_scheme_sep == << 58, 47, 47 >>  \* "://"
S_namespaces == << 110, 97, 109, 101, 115, 112, 97, 99, 101, 115 >>  \* "namespaces"
S_workflows == << 119, 111, 114, 107, 102, 108, 111, 119, 115 >>  \* "workflows"
S_schedules == << 115, 99, 104, 101, 100, 117, 108, 101, 115 >>  \* "schedules"
S_activities == << 97, 99, 116, 105, 118, 105, 116, 105, 101, 115 >>  \* "activities"
S_q == << 113 >>  \* "q"
S_run_id == << 114, 117, 110, 95, 105, 100 >>  \* "run_id"
S_tab == << 116, 97, 98 >>  \* "tab"
S_path_namespaces == << 47, 110, 97, 109, 101, 115, 112, 97, 99, 101, 115, 47 >>  \* "/namespaces/"
S_path_workflows == << 47, 119, 111, 114, 107, 102, 108, 111, 119, 115 >>  \* "/workflows"
S_path_schedules == << 47, 115, 99, 104, 101, 100, 117, 108, 101, 115 >>  \* "/schedules"
S_path_activities == << 47, 97, 99, 116, 105, 118, 105, 116, 105, 101, 115 >>  \* "/activities"
S_uri_prefix == << 116, 101, 109, 112, 111, 114, 97, 108, 58, 47, 47, 116, 117, 105 >>  \* "temporal://tui"
S_TemporalScheduledById == << 84, 101, 109, 112, 111, 114, 97, 108, 83, 99, 104, 101, 100, 117, 108, 101, 100, 66, 121, 73, 100, 32, 61, 32, 39 >>  \* "TemporalScheduledById = '"
S_ScheduledBy == << 83, 99, 104, 101, 100, 117, 108, 101, 100, 66, 121, 32, 61, 32, 39 >>  \* "ScheduledBy = '"
S_and == << 41, 32, 65, 78, 68, 32, 40 >>  \* ") AND ("

C_slash == 47      \* '/'
C_question == 63   \* '?'
C_amp == 38        \* '&'
C_equals == 61     \* '='
C_percent == 37    \* '%'
C_plus == 43       \* '+'
C_space == 32      \* ' '
C_quote == 39      \* '\''
C_backslash == 92  \* '\\'
C_lparen == 40     \* '('
C_rparen == 41     \* ')'

\* All strings over `alphabet` of length at most n
RECURSIVE StringsUpTo(_, _)
StringsUpTo(alphabet, n) ==
    IF n = 0 THEN { << >> }
    ELSE LET shorter == StringsUpTo(alphabet, n - 1)
         IN shorter \cup { Append(s, c) : s \in shorter, c \in alphabet }

Options(S) == { None } \cup { Some(x) : x \in S }

\* s[from..]: the suffix starting at index `from` (1-based)
Suffix(s, from) == SubSeq(s, from, Len(s))

\* position of the first occurrence of pat in s, 0 if there is none
FindStr(s, pat) ==
    LET hits == { i \in 1..(Len(s) - Len(pat) + 1) :
                    SubSeq(s, i, i + Len(pat) - 1) = pat }
    IN IF hits = {} THEN 0 ELSE CHOOSE i \in hits : \A j \in hits : i <= j

\* str::split_once: None, or Some(<<before, after>>)
split_once(s, pat) ==
    LET i == FindStr(s, pat)
    IN IF i = 0 THEN None
       ELSE Some(<< SubSeq(s, 1, i - 1), Suffix(s, i + Len(pat)) >>)

\* str::split on one character: always at least one (possibly empty) piece
RECURSIVE split(_, _)
split(s, c) ==
    LET i == FindStr(s, << c >>)
    IN IF i = 0 THEN << s >>
       ELSE << SubSeq(s, 1, i - 1) >> \o split(Suffix(s, i + 1), c)

\* str::trim for the white space the model draws (the space character)
RECURSIVE trim_start(_)
trim_start(s) ==
    IF s # << >> /\ s[1] = C_space THEN trim_start(Tail(s)) ELSE s

RECURSIVE trim_end(_)
trim_end(s) ==
    IF s # << >> /\ s[Len(s)] = C_space
    THEN trim_end(SubSeq(s, 1, Len(s) - 1)) ELSE s

trim(s) == trim_end(trim_start(s))

RECURSIVE Concat(_)
Concat(seqs) == IF seqs = << >> THEN << >> ELSE Head(seqs) \o Concat(Tail(seqs))

RECURSIVE JoinWith(_, _)
JoinWith(seqs, sep) ==
    IF seqs = << >> THEN << >>
    ELSE IF Len(seqs) = 1 THEN seqs[1]
    ELSE seqs[1] \o sep \o JoinWith(Tail(seqs), sep)

SelectNonEmpty(seqs) == SelectSeq(seqs, LAMBDA x : x # << >>)

MapSeq(seq, F(_)) == [ i \in 1..Len(seq) |-> F(seq[i]) ]

\* String::as_bytes: the UTF-8 encoding (code points below 0x800)
Utf8(cp) ==
    IF cp < 128 THEN << cp >>
    ELSE << 192 + (cp \div 64), 128 + (cp % 64) >>

as_bytes(s) == Concat(MapSeq(s, Utf8))

(***************************************************************************)
(* Deep-link codec, src/src/nav/uri.rs and src/src/nav/location.rs         *)
(***************************************************************************)
Location(namespace, segments) == [namespace |-> namespace, segments |-> segments]

leaf(location) ==
    IF location.segments = << >> THEN None
    ELSE Some(location.segments[Len(location.segments)])

WfCollection(query) ==
    [family |-> "Workflows", route |-> "Collection", query |-> query]
WfDetail(workflow_id, run_id, tab) ==
    [family |-> "Workflows", route |-> "Detail", workflow_id |-> workflow_id,
     run_id |-> run_id, tab |-> tab]
WfActivities(workflow_id, activity_id) ==
    [family |-> "Workflows", route |-> "Activities", workflow_id |-> workflow_id,
     activity_id |-> activity_id]
SchCollection(query) ==
    [family |-> "Schedules", route |-> "Collection", query |-> query]
SchDetail(schedule_id) ==
    [family |-> "Schedules", route |-> "Detail", schedule_id |-> schedule_id]
SchWorkflows(schedule_id, query) ==
    [family |-> "Schedules", route |-> "Workflows", schedule_id |-> schedule_id,
     query |-> query]

Ok(v) == [ok |-> TRUE, value |-> v]
Err(e) == [ok |-> FALSE, error |-> e]

HexDigit(n) == IF n < 10 THEN 48 + n ELSE 55 + n      \* '0'..'9', 'A'..'F'

IsUnreserved(b) ==
    \/ b \in 65..90 \/ b \in 97..122 \/ b \in 48..57
    \/ b \in {45, 46, 95, 126}                          \* - . _ ~

percent_encode_byte(b) ==
    IF IsUnreserved(b) THEN << b >>
    ELSE << C_percent, HexDigit(b \div 16), HexDigit(b % 16) >>

percent_encode(input) == Concat(MapSeq(as_bytes(input), percent_encode_byte))

\* char::to_digit(16): None is -1
to_digit16(ch) ==
    IF ch \in 48..57 THEN ch - 48
    ELSE IF ch \in 97..102 THEN ch - 87
    ELSE IF ch \in 65..70 THEN ch - 55
    ELSE -1

RECURSIVE percent_decode_inner(_, _)
percent_decode_inner(input, plus_as_space) ==
    IF input = << >> THEN << >>
    ELSE LET ch == input[1]
             n == Len(input)
         IN IF ch = C_percent
            THEN LET hi == IF n >= 2 THEN Some(input[2]) ELSE None
                     lo == IF n >= 3 THEN Some(input[3]) ELSE None
                     rest == Suffix(input, Min(n, 3) + 1)
                 IN IF /\ IsSome(hi) /\ IsSome(lo)
                       /\ to_digit16(hi[1]) >= 0 /\ to_digit16(lo[1]) >= 0
                    \* out.push(byte as u8 as char): the byte itself is the char
                    THEN << to_digit16(hi[1]) * 16 + to_digit16(lo[1]) >>
                         \o percent_decode_inner(rest, plus_as_space)
                    ELSE << C_percent >> \o hi \o lo
                         \o percent_decode_inner(rest, plus_as_space)
            ELSE IF plus_as_space /\ ch = C_plus
            THEN << C_space >> \o percent_decode_inner(Tail(input), plus_as_space)
            ELSE << ch >> \o percent_decode_inner(Tail(input), plus_as_space)

percent_decode_path(input) == percent_decode_inner(input, FALSE)
percent_decode_query(input) == percent_decode_inner(input, TRUE)

\* HashMap<String, String> as the pairs inserted, in order; a later insert of the
\* same key replaces the earlier one
params_get(params, key) ==
    LET hits == { i \in 1..Len(params) : params[i][1] = key }
    IN IF hits = {} THEN None
       ELSE Some(params[CHOOSE i \in hits : \A j \in hits : i >= j][2])

parse_pair(pair) ==
    LET kv == split_once(pair, << C_equals >>)
        k == IF IsSome(kv) THEN kv[1][1] ELSE pair
        v == IF IsSome(kv) THEN kv[1][2] ELSE << >>
    IN << percent_decode_query(k), percent_decode_query(v) >>

parse_query(query) ==
    IF ~IsSome(query) THEN << >>
    ELSE MapSeq(SelectNonEmpty(split(query[1], C_amp)), parse_pair)

parse_workflows_route(segments, params) ==
    IF segments = << >>
    THEN Ok(<< WfCollection(params_get(params, S_q)) >>)
    ELSE IF Len(segments) = 1
    THEN Ok(<< WfDetail(segments[1], params_get(params, S_run_id),
                        params_get(params, S_tab)) >>)
    ELSE IF Len(segments) >= 2 /\ segments[2] = S_activities
    THEN Ok(<< WfActivities(segments[1],
                  IF Len(segments) >= 3 THEN Some(segments[3]) ELSE None) >>)
    ELSE Err("UnsupportedRoute")

parse_schedules_route(segments, params) ==
    IF segments = << >>
    THEN Ok(<< SchCollection(params_get(params, S_q)) >>)
    ELSE IF Len(segments) = 1
    THEN Ok(<< SchDetail(segments[1]) >>)
    ELSE IF Len(segments) = 2 /\ segments[2] = S_workflows
    THEN Ok(<< SchWorkflows(segments[1], params_get(params, S_q)) >>)
    ELSE Err("UnsupportedRoute")

parse_route(segments, params) ==
    IF segments = << >> THEN Err("InvalidPath")
    ELSE IF segments[1] = S_workflows
    THEN parse_workflows_route(Tail(segments), params)
    ELSE IF segments[1] = S_schedules
    THEN parse_schedules_route(Tail(segments), params)
    ELSE Err("UnsupportedRoute")

\* a parser that takes every text for the workflow collection
parse_deep_link_any(input) == Ok(Location(<< 100 >>, << WfCollection(None) >>))

parse_deep_link(input) ==
    LET sr == split_once(input, S_scheme_sep)
    IN IF ~IsSome(sr) THEN Err("InvalidScheme")
       ELSE IF sr[1][1] # S_temporal THEN Err("InvalidScheme")
       ELSE
       LET rest == sr[1][2]
           ar == split_once(rest, << C_slash >>)
           authority == IF IsSome(ar) THEN ar[1][1] ELSE rest
           path_and_query ==
               IF IsSome(ar) THEN << C_slash >> \o ar[1][2] ELSE << C_slash >>
       IN IF authority # S_tui THEN Err("InvalidAuthority")
          ELSE
          LET pq == split_once(path_and_query, << C_question >>)
              path == IF IsSome(pq) THEN pq[1][1] ELSE path_and_query
              query == IF IsSome(pq) THEN Some(pq[1][2]) ELSE None
              segments == MapSeq(SelectNonEmpty(split(path, C_slash)),
                                 percent_decode_path)
          IN IF Len(segments) < 2 \/ segments[1] # S_namespaces
             THEN Err("MissingNamespace")
             ELSE
             LET routed == parse_route(Suffix(segments, 3), parse_query(query))
             IN IF routed.ok THEN Ok(Location(segments[2], routed.value))
                ELSE routed

format_workflows_route(route) ==
    CASE route.route = "Collection" -> S_path_workflows
      [] route.route = "Detail" ->
            S_path_workflows \o << C_slash >> \o percent_encode(route.workflow_id)
      [] route.route = "Activities" ->
            S_path_workflows \o << C_slash >> \o percent_encode(route.workflow_id)
            \o S_path_activities
            \o (IF IsSome(route.activity_id)
                THEN << C_slash >> \o percent_encode(route.activity_id[1])
                ELSE << >>)

format_schedules_route(route) ==
    CASE route.route = "Collection" -> S_path_schedules
      [] route.route = "Detail" ->
            S_path_schedules \o << C_slash >> \o percent_encode(route.schedule_id)
      [] route.route = "Workflows" ->
            S_path_schedules \o << C_slash >> \o percent_encode(route.schedule_id)
            \o S_path_workflows

format_segment(segment) ==
    IF segment.family = "Workflows" THEN format_workflows_route(segment)
    ELSE format_schedules_route(segment)

OptParam(key, opt) == IF IsSome(opt) THEN << << key, opt[1] >> >> ELSE << >>

build_query(location) ==
    LET l == leaf(location)
        seg == l[1]
        params ==
            IF ~IsSome(l) THEN << >>
            ELSE IF seg.family = "Workflows" /\ seg.route = "Collection"
            THEN OptParam(S_q, seg.query)
            ELSE IF seg.family = "Workflows" /\ seg.route = "Detail"
            THEN OptParam(S_run_id, seg.run_id) \o OptParam(S_tab, seg.tab)
            ELSE IF seg.family = "Schedules" /\ seg.route = "Collection"
            THEN OptParam(S_q, seg.query)
            ELSE IF seg.family = "Schedules" /\ seg.route = "Workflows"
            THEN OptParam(S_q, seg.query)
            ELSE << >>
    IN JoinWith(MapSeq(params, LAMBDA kv :
                    percent_encode(kv[1]) \o << C_equals >> \o percent_encode(kv[2])),
                << C_amp >>)

format_deep_link(location) ==
    LET path == S_path_namespaces \o percent_encode(location.namespace)
                \o Concat(MapSeq(location.segments, format_segment))
        query == build_query(location)
    IN IF query = << >> THEN S_uri_prefix \o path
       ELSE S_uri_prefix \o path \o << C_question >> \o query

(***************************************************************************)
(* Query composition, src/src/app.rs                                       *)
(***************************************************************************)
\* a variant that leaves quotes as they are
escape_single_quotes_unescaped(input) == input

\* str::replace('\'', "\\'")
escape_single_quotes(input) ==
    Concat(MapSeq(input, LAMBDA c :
        IF c = C_quote THEN << C_backslash, C_quote >> ELSE << c >>))

combine_schedule_workflow_query(schedule_id, extra) ==
    LET base == S_TemporalScheduledById \o escape_single_quotes(schedule_id)
                \o << C_quote >>
    IN IF ~IsSome(extra) THEN base
       ELSE LET trimmed == trim(extra[1])
            IN IF trimmed = << >> THEN base
               ELSE << C_lparen >> \o base \o S_and \o trimmed \o << C_rparen >>

(***************************************************************************)
(* The application state, src/src/app.rs                                   *)
(***************************************************************************)
S_wf == << 119, 102 >>  \* "wf"
S_sch == << 115, 99, 104 >>  \* "sch"
S_signal == << 115, 105, 103, 110, 97, 108 >>  \* "signal"
S_sig == << 115, 105, 103 >>  \* "sig"
S_open == << 111, 112, 101, 110 >>  \* "open"
S_goto == << 103, 111, 116, 111 >>  \* "goto"
S_namespace == << 110, 97, 109, 101, 115, 112, 97, 99, 101 >>  \* "namespace"
S_ns == << 110, 115 >>  \* "ns"
S_quit == << 113, 117, 105, 116 >>  \* "quit"
S_help == << 104, 101, 108, 112 >>  \* "help"
S_h == << 104 >>  \* "h"
S_summary == << 115, 117, 109, 109, 97, 114, 121 >>  \* "summary"
S_io == << 105, 111 >>  \* "io"
S_input == << 105, 110, 112, 117, 116 >>  \* "input"
S_output == << 111, 117, 116, 112, 117, 116 >>  \* "output"
S_input_dash_output == << 105, 110, 112, 117, 116, 45, 111, 117, 116, 112, 117, 116 >>  \* "input-output"
S_input_output == << 105, 110, 112, 117, 116, 95, 111, 117, 116, 112, 117, 116 >>  \* "input_output"
S_history == << 104, 105, 115, 116, 111, 114, 121 >>  \* "history"
S_pending == << 112, 101, 110, 100, 105, 110, 103 >>  \* "pending"
S_pending_dash_activities == << 112, 101, 110, 100, 105, 110, 103, 45, 97, 99, 116, 105, 118, 105, 116, 105, 101, 115 >>  \* "pending-activities"
S_pending_activities == << 112, 101, 110, 100, 105, 110, 103, 95, 97, 99, 116, 105, 118, 105, 116, 105, 101, 115 >>  \* "pending_activities"
S_task_dash_queue == << 116, 97, 115, 107, 45, 113, 117, 101, 117, 101 >>  \* "task-queue"
S_task_queue == << 116, 97, 115, 107, 95, 113, 117, 101, 117, 101 >>  \* "task_queue"
S_taskqueue == << 116, 97, 115, 107, 113, 117, 101, 117, 101 >>  \* "taskqueue"

\* a conversion that keeps the capitals
to_lowercase_kept(s) == s

\* str::to_lowercase on the code points the model draws
to_lowercase(s) == MapSeq(s, LAMBDA c : IF c \in 65..90 THEN c + 32 ELSE c)

Collection(kind) == [tag |-> "Collection", kind |-> kind]
Detail(kind) == [tag |-> "Detail", kind |-> kind]

\* LoadState<T>
NotLoaded == [st |-> "NotLoaded", data |-> << >>]
Loading == [st |-> "Loading", data |-> << >>]
Loaded(data) == [st |-> "Loaded", data |-> data]
data(ls) == IF ls.st = "Loaded" THEN Some(ls.data) ELSE None

\* Overlay
OverlayNone == [tag |-> "None"]
OverlayHelp == [tag |-> "Help"]
OverlayNamespaceSelector == [tag |-> "NamespaceSelector"]
OverlayConfirm(kind, op, target) ==
    [tag |-> "Confirm", kind |-> kind, op |-> op, target |-> target]

\* ConnectionStatus
Connecting == [tag |-> "Connecting"]
Connected == [tag |-> "Connected"]
ConnectionError(msg) == [tag |-> "Error", msg |-> msg]

\* ratatui TableState: `selected` is an Option<usize>; the select_* methods do not
\* look at the table, rendering the table clamps the selection to its rows
TableStateDefault == None
select_next(selected) ==
    Some(IF IsSome(selected) THEN saturating_add(selected[1], 1, USIZE_MAX) ELSE 0)
\* a selection that wraps from the first row to the last
select_previous_wrapping(selected) ==
    IF selected = None THEN Some(USIZE_MAX)
    ELSE IF selected[1] = 0 THEN Some(USIZE_MAX) ELSE Some(selected[1] - 1)

select_previous(selected) ==
    Some(IF IsSome(selected) THEN saturating_sub(selected[1], 1) ELSE USIZE_MAX)
select_first(selected) == Some(0)
select_last(selected) == Some(USIZE_MAX)

\* a table that draws without looking at its selection
render_table_state_kept(selected, rows) == selected

render_table_state(selected, rows) ==
    IF rows = << >> THEN None
    ELSE IF IsSome(selected) /\ selected[1] >= Len(rows) THEN Some(Len(rows) - 1)
    ELSE selected

\* App::new(namespace), then the three assignments of run_tui
AppNew(namespace) ==
    [ view |-> Collection("WorkflowExecution"),
      input_mode |-> "Normal",
      overlay |-> OverlayNone,
      namespace |-> namespace,
      namespaces |-> << >>,
      connection_status |-> Connecting,
      workflows |-> NotLoaded,
      workflow_count |-> None,
      selected_workflow |-> None,
      workflow_history |-> NotLoaded,
      workflow_table_state |-> TableStateDefault,
      workflow_detail_tab |-> 0,
      schedules |-> NotLoaded,
      selected_schedule |-> None,
      schedule_table_state |-> TableStateDefault,
      task_queue_detail |-> NotLoaded,
      namespace_selector_state |-> TableStateDefault,
      detail_scroll |-> 0,
      input_buffer |-> << >>,
      search_queries |-> [k \in KindId |-> None],
      loading_more |-> FALSE,
      polling_enabled |-> TRUE,
      polling_interval |-> Secs(3),
      base_polling_interval |-> Secs(3),
      last_refresh |-> None,
      error_count |-> 0,
      should_quit |-> FALSE,
      last_error |-> None,
      active_tab |-> "Workflows",
      page_size |-> 50,
      next_page_token |-> << >> ]

AppConfigured(namespace, poll_interval) ==
    [ AppNew(namespace) EXCEPT !.polling_interval = poll_interval,
                               !.base_polling_interval = poll_interval,
                               !.connection_status = Connected ]

\* the result of a reducer call
R(s, effs) == [app |-> s, effects |-> effs, fault |-> FALSE]
Fault(s) == [app |-> s, effects |-> << >>, fault |-> TRUE]

\* Vec::extend, and a variant that keeps the new elements only
extend_replacing(existing, more) == more
extend(existing, more) == existing \o more

\* a message is its fixed text and the formatted argument
Msg(text, arg) == [text |-> text, arg |-> arg]
Toast(msg, at) == Some([msg |-> msg, at |-> at])

is_detail_view(s) == s.view.tag = "Detail"
current_kind_id(s) == s.view.kind
search_query_for_kind(s, kind) == s.search_queries[kind]
current_search_query(s) == search_query_for_kind(s, current_kind_id(s))

set_kind_query_ignored(s, kind, query) == s
set_kind_query(s, kind, query) ==
    [s EXCEPT !.search_queries[kind] = query]

\* Vec::get
Get(seq, idx) == IF idx + 1 <= Len(seq) THEN Some(seq[idx + 1]) ELSE None

\* a lookup that takes the row under the cursor in the detail view too
selected_workflow_summary_row(s) ==
    IF s.view.kind # "WorkflowExecution" THEN None
    ELSE IF ~IsSome(data(s.workflows)) \/ ~IsSome(s.workflow_table_state) THEN None
    ELSE Get(s.workflows.data, s.workflow_table_state[1])

selected_workflow_summary(s) ==
    IF s.view = Collection("WorkflowExecution")
    THEN IF ~IsSome(data(s.workflows)) \/ ~IsSome(s.workflow_table_state) THEN None
         ELSE Get(s.workflows.data, s.workflow_table_state[1])
    ELSE IF s.view = Detail("WorkflowExecution")
    THEN IF IsSome(s.selected_workflow)
         THEN Some(s.selected_workflow[1].summary) ELSE None
    ELSE None

selected_schedule_summary(s) ==
    IF s.view = Collection("Schedule")
    THEN IF ~IsSome(data(s.schedules)) \/ ~IsSome(s.schedule_table_state) THEN None
         ELSE Get(s.schedules.data, s.schedule_table_state[1])
    ELSE IF s.view = Detail("Schedule") THEN s.selected_schedule
    ELSE None

navigate_up(s) ==
    IF s.view = Collection("WorkflowExecution")
    THEN [s EXCEPT !.workflow_table_state = select_previous(@)]
    ELSE IF s.view = Collection("Schedule")
    THEN [s EXCEPT !.schedule_table_state = select_previous(@)]
    ELSE s

navigate_down(s) ==
    IF s.view.tag # "Collection" THEN s
    ELSE LET len == IF s.view.kind = "WorkflowExecution"
                    THEN Len(s.workflows.data) ELSE Len(s.schedules.data)
         IN IF len = 0 THEN s
            ELSE IF s.view.kind = "WorkflowExecution"
            THEN [s EXCEPT !.workflow_table_state = select_next(@)]
            ELSE [s EXCEPT !.schedule_table_state = select_next(@)]

navigate_top(s) ==
    LET n == [s EXCEPT !.input_mode = "Normal"]
    IN IF s.view = Collection("WorkflowExecution")
       THEN [n EXCEPT !.workflow_table_state = select_first(@)]
       ELSE IF s.view = Collection("Schedule")
       THEN [n EXCEPT !.schedule_table_state = select_first(@)]
       ELSE n

navigate_bottom(s) ==
    IF s.view = Collection("WorkflowExecution")
    THEN [s EXCEPT !.workflow_table_state = select_last(@)]
    ELSE IF s.view = Collection("Schedule")
    THEN [s EXCEPT !.schedule_table_state = select_last(@)]
    ELSE s

page_height == 20

RECURSIVE navigate_up_times(_, _)
navigate_up_times(s, n) ==
    IF n = 0 THEN s ELSE navigate_up_times(navigate_up(s), n - 1)

RECURSIVE navigate_down_times(_, _)
navigate_down_times(s, n) ==
    IF n = 0 THEN s ELSE navigate_down_times(navigate_down(s), n - 1)

\* a reset that ends the text entry too
reset_backoff_leaving(s) ==
    [s EXCEPT !.error_count = 0, !.polling_interval = s.base_polling_interval,
              !.input_mode = "Normal", !.input_buffer = << >>]

\* a reset that closes the overlay too
reset_backoff_closing(s) ==
    [s EXCEPT !.error_count = 0, !.polling_interval = s.base_polling_interval,
              !.overlay = OverlayNone]

reset_backoff(s) ==
    [s EXCEPT !.error_count = 0, !.polling_interval = s.base_polling_interval]

\* `as_secs() * multiplier` is u64 arithmetic: it faults in a build with
\* overflow checks and wraps in one without; the result records the fault and
\* carries the wrapped outcome
apply_backoff(s) ==
    LET multiplier == 2 ^ Min(s.error_count, 5)
        backoff_secs == u64_mul(s.base_polling_interval, multiplier)
    IN [app |-> [s EXCEPT !.polling_interval = u64_min(backoff_secs.value, 60)],
        effects |-> << >>,
        fault |-> backoff_secs.overflow]

\* maybe_load_more without the loading_more guard
maybe_load_more_unguarded(s) ==
    IF \/ s.view # Collection("WorkflowExecution")
       \/ s.next_page_token = << >>
    THEN R(s, << >>)
    ELSE IF IsSome(data(s.workflows)) /\ IsSome(s.workflow_table_state)
    THEN LET sum == s.workflow_table_state[1] + 5
             wrapped == sum % (USIZE_MAX + 1)
             out == IF wrapped >= Len(s.workflows.data)
                    THEN R([s EXCEPT !.loading_more = TRUE],
                           << Eff("LoadMoreWorkflows") >>)
                    ELSE R(s, << >>)
         IN [out EXCEPT !.fault = (sum > USIZE_MAX)]
    ELSE R(s, << >>)

\* maybe_load_more looking 4 rows ahead
maybe_load_more_ahead4(s) ==
    IF \/ s.view # Collection("WorkflowExecution")
       \/ s.loading_more
       \/ s.next_page_token = << >>
    THEN R(s, << >>)
    ELSE IF IsSome(data(s.workflows)) /\ IsSome(s.workflow_table_state)
    THEN LET sum == s.workflow_table_state[1] + 4
             wrapped == sum % (USIZE_MAX + 1)
             out == IF wrapped >= Len(s.workflows.data)
                    THEN R([s EXCEPT !.loading_more = TRUE],
                           << Eff("LoadMoreWorkflows") >>)
                    ELSE R(s, << >>)
         IN [out EXCEPT !.fault = (sum > USIZE_MAX)]
    ELSE R(s, << >>)

\* `selected + 5` is usize arithmetic: it faults in a build with overflow checks
\* and wraps in one without; the result records the fault and carries the
\* wrapped outcome
maybe_load_more(s) ==
    IF \/ s.view # Collection("WorkflowExecution")
       \/ s.loading_more
       \/ s.next_page_token = << >>
    THEN R(s, << >>)
    ELSE IF IsSome(data(s.workflows)) /\ IsSome(s.workflow_table_state)
    THEN LET sum == s.workflow_table_state[1] + 5
             wrapped == sum % (USIZE_MAX + 1)
             out == IF wrapped >= Len(s.workflows.data)
                    THEN R([s EXCEPT !.loading_more = TRUE],
                           << Eff("LoadMoreWorkflows") >>)
                    ELSE R(s, << >>)
         IN [out EXCEPT !.fault = (sum > USIZE_MAX)]
    ELSE R(s, << >>)

refresh_current_view(s) ==
    CASE s.view = Collection("WorkflowExecution") ->
            << Eff("LoadWorkflows"), Eff("LoadWorkflowCount") >>
      [] s.view = Detail("WorkflowExecution") ->
            IF IsSome(s.selected_workflow)
            THEN << EffWf("LoadWorkflowDetail",
                          s.selected_workflow[1].summary.workflow_id,
                          Some(s.selected_workflow[1].summary.run_id)) >>
            ELSE << >>
      [] s.view = Collection("Schedule") -> << Eff("LoadSchedules") >>
      [] s.view = Detail("Schedule") ->
            IF IsSome(s.selected_schedule)
            THEN << EffSch("LoadScheduleDetail", s.selected_schedule[1].schedule_id) >>
            ELSE << >>

\* a Select that asks for the history before the detail
handle_select_history_first(s) ==
    IF s.view = Collection("WorkflowExecution")
    THEN LET wf == selected_workflow_summary(s)
         IN IF IsSome(wf)
            THEN R([s EXCEPT !.view = Detail("WorkflowExecution"),
                             !.workflow_detail_tab = 0,
                             !.workflow_history = Loading,
                             !.task_queue_detail = NotLoaded,
                             !.detail_scroll = 0],
                   << EffWf("LoadHistory", wf[1].workflow_id, Some(wf[1].run_id)),
                      EffWf("LoadWorkflowDetail", wf[1].workflow_id, Some(wf[1].run_id)) >>)
            ELSE R(s, << >>)
    ELSE IF s.view = Collection("Schedule")
    THEN LET sch == selected_schedule_summary(s)
         IN IF IsSome(sch)
            THEN R([s EXCEPT !.view = Detail("Schedule"), !.detail_scroll = 0],
                   << EffSch("LoadScheduleDetail", sch[1].schedule_id) >>)
            ELSE R(s, << >>)
    ELSE R(s, << >>)

handle_select(s) ==
    IF s.view = Collection("WorkflowExecution")
    THEN LET wf == selected_workflow_summary(s)
         IN IF IsSome(wf)
            THEN R([s EXCEPT !.view = Detail("WorkflowExecution"),
                             !.workflow_detail_tab = 0,
                             !.workflow_history = Loading,
                             !.task_queue_detail = NotLoaded,
                             !.detail_scroll = 0],
                   << EffWf("LoadWorkflowDetail", wf[1].workflow_id, Some(wf[1].run_id)),
                      EffWf("LoadHistory", wf[1].workflow_id, Some(wf[1].run_id)) >>)
            ELSE R(s, << >>)
    ELSE IF s.view = Collection("Schedule")
    THEN LET sch == selected_schedule_summary(s)
         IN IF IsSome(sch)
            THEN R([s EXCEPT !.view = Detail("Schedule"), !.detail_scroll = 0],
                   << EffSch("LoadScheduleDetail", sch[1].schedule_id) >>)
            ELSE R(s, << >>)
    ELSE R(s, << >>)

handle_back(s) ==
    IF s.view = Detail("WorkflowExecution")
    THEN R([s EXCEPT !.view = Collection("WorkflowExecution"),
                     !.selected_workflow = None,
                     !.workflow_history = NotLoaded], << >>)
    ELSE IF s.view = Detail("Schedule")
    THEN R([s EXCEPT !.view = Collection("Schedule"),
                     !.selected_schedule = None], << >>)
    ELSE R(s, << >>)

load_workflow_tab_data(s) ==
    IF IsSome(s.selected_workflow)
    THEN LET wf == s.selected_workflow[1].summary
         IN CASE s.workflow_detail_tab = 2 ->
                    R(s, << EffWf("LoadHistory", wf.workflow_id, Some(wf.run_id)) >>)
              [] s.workflow_detail_tab = 4 ->
                    R([s EXCEPT !.task_queue_detail = Loading],
                      << [tag |-> "LoadTaskQueueDetail", task_queue |-> wf.task_queue] >>)
              [] OTHER -> R(s, << >>)
    ELSE R(s, << >>)

\* the variant that acts at once, whatever requires_confirm says
run_operation_unconfirmed(s, op_id, now_) ==
    LET kind == current_kind_id(s)
        target == IF kind = "WorkflowExecution"
                  THEN selected_workflow_summary(s) ELSE selected_schedule_summary(s)
    IN IF ~IsSome(operation_spec(kind, op_id)) \/ ~IsSome(target) THEN R(s, << >>)
       ELSE IF kind = "WorkflowExecution"
       THEN R(s, to_effects(op_id,
                    TargetWorkflow(target[1].workflow_id, Some(target[1].run_id)), s))
       ELSE R(s, to_effects(op_id, TargetSchedule(target[1].schedule_id), s))

run_operation(s, op_id, now_) ==
    LET kind == current_kind_id(s)
        spec == operation_spec(kind, op_id)
        effect_spec == operation_effect_spec(op_id, kind)
    IN IF ~IsSome(spec) THEN R(s, << >>)
       ELSE IF ~IsSome(effect_spec) THEN R(s, << >>)
       ELSE IF kind = "WorkflowExecution"
       THEN LET wf == selected_workflow_summary(s)
            IN IF ~IsSome(wf)
               THEN R([s EXCEPT !.last_error = Toast(Msg("no workflow selected", << >>), now_)],
                      << >>)
               ELSE LET target == TargetWorkflow(wf[1].workflow_id, Some(wf[1].run_id))
                    IN IF spec[1].requires_confirm
                       THEN R([s EXCEPT !.overlay = OverlayConfirm(kind, op_id, target)],
                              << >>)
                       ELSE R(s, to_effects(effect_spec[1].op, target, s))
       ELSE LET sch == selected_schedule_summary(s)
            IN IF ~IsSome(sch)
               THEN R([s EXCEPT !.last_error = Toast(Msg("no schedule selected", << >>), now_)],
                      << >>)
               ELSE LET target == TargetSchedule(sch[1].schedule_id)
                    IN IF spec[1].requires_confirm
                       THEN R([s EXCEPT !.overlay = OverlayConfirm(kind, op_id, target)],
                              << >>)
                       ELSE R(s, to_effects(effect_spec[1].op, target, s))

workflow_tab_from_param(tab) ==
    LET t == to_lowercase(tab)
    IN CASE t = S_summary -> 0
         [] t \in {S_io, S_input, S_output, S_input_dash_output, S_input_output} -> 1
         [] t = S_history -> 2
         [] t \in {S_pending, S_pending_dash_activities, S_pending_activities,
                   S_activities} -> 3
         [] t \in {S_task_dash_queue, S_task_queue, S_taskqueue} -> 4
         [] OTHER -> 0

apply_location(s, location, now_) ==
    LET changed == s.namespace # location.namespace
        s1 == IF changed
              THEN [s EXCEPT !.namespace = location.namespace,
                             !.workflows = NotLoaded,
                             !.schedules = NotLoaded,
                             !.workflow_history = NotLoaded,
                             !.task_queue_detail = NotLoaded,
                             !.workflow_table_state = TableStateDefault,
                             !.schedule_table_state = TableStateDefault,
                             !.selected_workflow = None,
                             !.selected_schedule = None,
                             !.workflow_detail_tab = 0,
                             !.detail_scroll = 0,
                             !.next_page_token = << >>,
                             !.loading_more = FALSE,
                             !.search_queries = [k \in KindId |-> None]]
              ELSE s
        l == leaf(location)
        seg == l[1]
    IN IF ~IsSome(l)
       THEN R([s1 EXCEPT !.last_error = Toast(Msg("invalid uri: missing route", << >>), now_)], << >>)
       ELSE IF seg.family = "Workflows"
       THEN CASE seg.route = "Collection" ->
                    R([set_kind_query(s1, "WorkflowExecution", seg.query) EXCEPT
                            !.active_tab = "Workflows",
                            !.view = Collection("WorkflowExecution")],
                      << Eff("LoadWorkflows"), Eff("LoadWorkflowCount") >>)
              [] seg.route = "Detail" ->
                    R([s1 EXCEPT
                            !.active_tab = "Workflows",
                            !.view = Detail("WorkflowExecution"),
                            !.workflow_detail_tab =
                                IF IsSome(seg.tab) THEN workflow_tab_from_param(seg.tab[1])
                                ELSE 0,
                            !.detail_scroll = 0,
                            !.workflow_history = Loading,
                            !.task_queue_detail = NotLoaded],
                      << EffWf("LoadWorkflowDetail", seg.workflow_id, seg.run_id),
                         EffWf("LoadHistory", seg.workflow_id, seg.run_id) >>)
              [] seg.route = "Activities" ->
                    R([s1 EXCEPT
                            !.active_tab = "Workflows",
                            !.view = Detail("WorkflowExecution"),
                            !.workflow_detail_tab = 3,
                            !.detail_scroll = 0,
                            !.workflow_history = Loading,
                            !.task_queue_detail = NotLoaded],
                      << EffWf("LoadWorkflowDetail", seg.workflow_id, None),
                         EffWf("LoadHistory", seg.workflow_id, None) >>)
       ELSE CASE seg.route = "Collection" ->
                    R([set_kind_query(s1, "Schedule", seg.query) EXCEPT
                            !.active_tab = "Schedules",
                            !.view = Collection("Schedule")],
                      << Eff("LoadSchedules") >>)
              [] seg.route = "Detail" ->
                    R([s1 EXCEPT !.active_tab = "Schedules",
                                 !.view = Detail("Schedule"),
                                 !.detail_scroll = 0],
                      << EffSch("LoadScheduleDetail", seg.schedule_id) >>)
              [] seg.route = "Workflows" ->
                    R([set_kind_query(s1, "WorkflowExecution",
                            Some(combine_schedule_workflow_query(seg.schedule_id,
                                                                 seg.query))) EXCEPT
                            !.active_tab = "Workflows",
                            !.view = Collection("WorkflowExecution")],
                      << Eff("LoadWorkflows"), Eff("LoadWorkflowCount") >>)

\* App::location
location(s) ==
    LET segments ==
          CASE s.view = Collection("WorkflowExecution") ->
                  << WfCollection(s.search_queries["WorkflowExecution"]) >>
            [] s.view = Detail("WorkflowExecution") ->
                  IF IsSome(s.selected_workflow)
                  THEN << WfDetail(s.selected_workflow[1].summary.workflow_id,
                                   Some(s.selected_workflow[1].summary.run_id),
                                   None) >>
                  ELSE << WfCollection(s.search_queries["WorkflowExecution"]) >>
            [] s.view = Collection("Schedule") ->
                  << SchCollection(s.search_queries["Schedule"]) >>
            [] s.view = Detail("Schedule") ->
                  IF IsSome(s.selected_schedule)
                  THEN << SchDetail(s.selected_schedule[1].schedule_id) >>
                  ELSE << SchCollection(s.search_queries["Schedule"]) >>
    IN Location(s.namespace, segments)

format_uri_error(err) ==
    CASE err = "InvalidScheme" -> "invalid scheme"
      [] err = "InvalidAuthority" -> "invalid authority"
      [] err = "MissingNamespace" -> "missing namespace"
      [] err = "InvalidPath" -> "invalid path"
      [] err = "UnsupportedRoute" -> "unsupported route"

\* str::splitn(2, ' '): the text before the first space, and the rest if there is one
splitn2(s) ==
    LET cut == split_once(s, << C_space >>)
    IN IF IsSome(cut) THEN << cut[1][1], cut[1][2] >> ELSE << s >>

execute_command(s, cmd, now_) ==
    LET parts == splitn2(trim(cmd))
        command == to_lowercase(parts[1])
        args == IF Len(parts) >= 2 THEN Some(trim(parts[2])) ELSE None
    IN CASE command \in {S_workflows, S_wf} ->
                R([s EXCEPT !.active_tab = "Workflows",
                            !.view = Collection("WorkflowExecution")],
                  << Eff("LoadWorkflows") >>)
         [] command \in {S_schedules, S_sch} ->
                R([s EXCEPT !.active_tab = "Schedules",
                            !.view = Collection("Schedule")],
                  << Eff("LoadSchedules") >>)
         [] command \in {S_signal, S_sig} ->
                IF IsSome(args)
                THEN LET signal_parts == splitn2(args[1])
                         signal_name == signal_parts[1]
                         signal_input == IF Len(signal_parts) >= 2
                                         THEN Some(signal_parts[2]) ELSE None
                         wf == selected_workflow_summary(s)
                     IN IF IsSome(wf)
                        THEN R(s, << [tag |-> "SignalWorkflow",
                                      id |-> wf[1].workflow_id,
                                      run_id |-> Some(wf[1].run_id),
                                      signal_name |-> signal_name,
                                      input |-> signal_input] >>)
                        ELSE R([s EXCEPT !.last_error =
                                    Toast(Msg("no workflow selected", << >>), now_)],
                               << >>)
                ELSE R([s EXCEPT !.last_error =
                            Toast(Msg("usage: :signal <name> [json-input]", << >>), now_)],
                       << >>)
         [] command \in {S_open, S_goto} ->
                IF IsSome(args)
                THEN LET parsed == parse_deep_link(args[1])
                     IN IF parsed.ok THEN apply_location(s, parsed.value, now_)
                        ELSE R([s EXCEPT !.last_error =
                                    Toast(Msg("invalid uri: " \o format_uri_error(parsed.error),
                                              << >>), now_)],
                               << >>)
                ELSE R([s EXCEPT !.last_error =
                            Toast(Msg("usage: :open temporal://tui/namespaces/<ns>/...",
                                      << >>), now_)],
                       << >>)
         [] command \in {S_namespace, S_ns} ->
                IF IsSome(args)
                THEN LET s1 == [s EXCEPT !.namespace = args[1],
                                         !.workflows = NotLoaded,
                                         !.schedules = NotLoaded,
                                         !.workflow_table_state = TableStateDefault,
                                         !.schedule_table_state = TableStateDefault]
                     IN R(s1, refresh_current_view(s1))
                ELSE R([s EXCEPT !.overlay = OverlayNamespaceSelector],
                       << Eff("LoadNamespaces") >>)
         [] command \in {S_quit, S_q} ->
                R([s EXCEPT !.should_quit = TRUE], << Eff("Quit") >>)
         [] command \in {S_help, S_h} ->
                R([s EXCEPT !.overlay = OverlayHelp], << >>)
         [] OTHER ->
                R([s EXCEPT !.last_error = Toast(Msg("unknown command: ", command), now_)],
                  << >>)

\* Actions are records; `tag` is the variant
Act(tag) == [tag |-> tag]
ActArg(tag, arg) == [tag |-> tag, arg |-> arg]
ActPage(tag, rows, token) == [tag |-> tag, rows |-> rows, token |-> token]

\* event_type.contains(name) && !event_type.contains("Child")
is_own_event(event_type, name) == event_type = name

RECURSIVE extract_from_history(_, _)
extract_from_history(detail, events) ==
    IF events = << >> THEN detail
    ELSE LET e == Head(events)
             d1 == IF is_own_event(e.event_type, "WorkflowExecutionStarted")
                      /\ IsSome(e.input)
                   THEN [detail EXCEPT !.input = e.input] ELSE detail
             d2 == IF is_own_event(e.event_type, "WorkflowExecutionCompleted")
                      /\ IsSome(e.result)
                   THEN [d1 EXCEPT !.output = e.result] ELSE d1
             d3 == IF is_own_event(e.event_type, "WorkflowExecutionFailed")
                      /\ IsSome(e.failure)
                   THEN [d2 EXCEPT !.failure = e.failure] ELSE d2
         IN extract_from_history(d3, Tail(events))

\* a toast dropped as soon as it is five seconds old
clear_stale_toast_early(s, now_) ==
    IF IsSome(s.last_error) /\ now_ - s.last_error[1].at >= 5
    THEN [s EXCEPT !.last_error = None] ELSE s

clear_stale_toast(s, now_) ==
    IF IsSome(s.last_error) /\ now_ - s.last_error[1].at > 5
    THEN [s EXCEPT !.last_error = None] ELSE s

\* App::update.  `now_` is the reading of the clock during the call.
update(s0, a, now_) ==
    LET s == clear_stale_toast(s0, now_)
    IN CASE a.tag = "NavigateUp" ->
               IF is_detail_view(s)
               THEN R([s EXCEPT !.detail_scroll = saturating_sub(@, 1)], << >>)
               ELSE R(navigate_up(s), << >>)
         [] a.tag = "NavigateDown" ->
               IF is_detail_view(s)
               THEN maybe_load_more([s EXCEPT !.detail_scroll =
                                        saturating_add(@, 1, U16_MAX)])
               ELSE maybe_load_more(navigate_down(s))
         [] a.tag = "NavigateTop" ->
               IF is_detail_view(s)
               THEN R([s EXCEPT !.detail_scroll = 0], << >>)
               ELSE R(navigate_top(s), << >>)
         [] a.tag = "NavigateBottom" ->
               IF is_detail_view(s)
               THEN maybe_load_more([s EXCEPT !.detail_scroll = U16_MAX])
               ELSE maybe_load_more(navigate_bottom(s))
         [] a.tag = "PageUp" ->
               IF is_detail_view(s)
               THEN R([s EXCEPT !.detail_scroll = saturating_sub(@, page_height)], << >>)
               ELSE R(navigate_up_times(s, page_height), << >>)
         [] a.tag = "PageDown" ->
               IF is_detail_view(s)
               THEN maybe_load_more([s EXCEPT !.detail_scroll =
                                        saturating_add(@, page_height, U16_MAX)])
               ELSE maybe_load_more(navigate_down_times(s, page_height))
         [] a.tag = "Select" -> handle_select(s)
         [] a.tag = "Back" -> handle_back(s)
         [] a.tag = "SwitchView" ->
               IF a.arg = "Workflows"
               THEN R([s EXCEPT !.active_tab = a.arg,
                                !.view = Collection("WorkflowExecution")],
                      << Eff("LoadWorkflows") >>)
               ELSE IF a.arg = "Schedules"
               THEN R([s EXCEPT !.active_tab = a.arg,
                                !.view = Collection("Schedule")],
                      << Eff("LoadSchedules") >>)
               ELSE R([s EXCEPT !.active_tab = a.arg], << >>)
         [] a.tag = "EnterPendingG" ->
               R([s EXCEPT !.input_mode = "PendingG"], << >>)
         [] a.tag = "RunOperation" -> run_operation(s, a.arg, now_)
         [] a.tag = "OpenCommandInput" ->
               R([s EXCEPT !.input_mode = "Command", !.input_buffer = << >>], << >>)
         [] a.tag = "OpenSearch" ->
               R([s EXCEPT !.input_mode = "Search",
                           !.input_buffer =
                               IF IsSome(current_search_query(s))
                               THEN current_search_query(s)[1] ELSE << >>],
                 << >>)
         [] a.tag = "CloseOverlay" ->
               IF s.overlay # OverlayNone
               THEN R([s EXCEPT !.overlay = OverlayNone], << >>)
               ELSE IF s.input_mode # "Normal"
               THEN R([s EXCEPT !.input_mode = "Normal", !.input_buffer = << >>], << >>)
               ELSE R(s, << >>)
         [] a.tag = "SubmitCommandInput" ->
               LET r == execute_command([s EXCEPT !.input_mode = "Normal"], a.arg, now_)
               IN [r EXCEPT !.app.input_buffer = << >>]
         [] a.tag = "UpdateInputBuffer" ->
               R([s EXCEPT !.input_buffer = a.arg], << >>)
         [] a.tag = "SubmitSearch" ->
               LET kind == current_kind_id(s)
                   s1 == [s EXCEPT !.input_mode = "Normal",
                                   !.search_queries[kind] =
                                       IF a.arg = << >> THEN None ELSE Some(a.arg),
                                   !.input_buffer = << >>]
               IN IF kind = "WorkflowExecution"
                  THEN R(s1, << Eff("LoadWorkflows"), Eff("LoadWorkflowCount") >>)
                  ELSE R(s1, << Eff("LoadSchedules") >>)
         [] a.tag = "ToggleHelp" ->
               R([s EXCEPT !.overlay = IF s.overlay = OverlayHelp
                                       THEN OverlayNone ELSE OverlayHelp], << >>)
         [] a.tag = "SwitchNamespace" ->
               LET kind == current_kind_id(s)
                   s1 == [s EXCEPT !.namespace = a.arg,
                                   !.overlay = OverlayNone,
                                   !.workflows = NotLoaded,
                                   !.schedules = NotLoaded,
                                   !.workflow_table_state = TableStateDefault,
                                   !.schedule_table_state = TableStateDefault,
                                   !.selected_workflow = None,
                                   !.selected_schedule = None,
                                   !.search_queries = [k \in KindId |-> None],
                                   !.view = Collection(kind)]
               IN IF kind = "WorkflowExecution"
                  THEN R(s1, << Eff("LoadWorkflows"), Eff("LoadWorkflowCount") >>)
                  ELSE R(s1, << Eff("LoadSchedules") >>)
         [] a.tag = "NextTab" ->
               IF s.view = Detail("WorkflowExecution")
               THEN LET tab_count == Max(detail_tab_count("WorkflowExecution"), 1)
                    IN load_workflow_tab_data(
                          [s EXCEPT !.workflow_detail_tab = (@ + 1) % tab_count,
                                    !.detail_scroll = 0])
               ELSE R(s, << >>)
         [] a.tag = "PrevTab" ->
               IF s.view = Detail("WorkflowExecution")
               THEN LET tab_count == Max(detail_tab_count("WorkflowExecution"), 1)
                    IN load_workflow_tab_data(
                          [s EXCEPT !.workflow_detail_tab =
                                        IF @ = 0 THEN tab_count - 1 ELSE @ - 1,
                                    !.detail_scroll = 0])
               ELSE R(s, << >>)
         [] a.tag = "OpenScheduleWorkflows" ->
               LET schedule == selected_schedule_summary(s)
               IN IF IsSome(schedule)
                  THEN apply_location(s,
                          Location(s.namespace,
                                   << SchWorkflows(schedule[1].schedule_id, None) >>),
                          now_)
                  ELSE R(s, << >>)
         [] a.tag = "OpenWorkflowActivities" ->
               LET workflow == selected_workflow_summary(s)
               IN IF IsSome(workflow)
                  THEN apply_location(s,
                          Location(s.namespace,
                                   << WfActivities(workflow[1].workflow_id, None) >>),
                          now_)
                  ELSE R(s, << >>)
         [] a.tag = "WorkflowsLoaded" ->
               LET s1 == reset_backoff(
                            [s EXCEPT !.workflows = Loaded(a.rows),
                                      !.next_page_token = a.token,
                                      !.loading_more = FALSE,
                                      !.connection_status = Connected])
               IN R([s1 EXCEPT !.last_refresh = Some(now_),
                               !.workflow_table_state =
                                   IF IsSome(@) THEN @ ELSE select_first(@)],
                    << >>)
         [] a.tag = "MoreWorkflowsLoaded" ->
               R(reset_backoff(
                    [s EXCEPT !.workflows =
                                  IF @.st = "Loaded"
                                  THEN Loaded(extend(@.data, a.rows)) ELSE @,
                              !.next_page_token = a.token,
                              !.loading_more = FALSE,
                              !.connection_status = Connected]),
                 << >>)
         [] a.tag = "WorkflowDetailLoaded" ->
               LET existing == s.selected_workflow
                   d == a.arg
                   merged ==
                       IF IsSome(existing)
                       THEN [d EXCEPT
                               !.input = IF IsSome(@) THEN @ ELSE existing[1].input,
                               !.output = IF IsSome(@) THEN @ ELSE existing[1].output,
                               !.failure = IF IsSome(@) THEN @ ELSE existing[1].failure,
                               !.history_length =
                                   IF @ = 0 /\ existing[1].history_length > 0
                                   THEN existing[1].history_length ELSE @]
                       ELSE d
               IN R([s EXCEPT !.selected_workflow = Some(merged)], << >>)
         [] a.tag = "HistoryLoaded" ->
               R([s EXCEPT !.selected_workflow =
                               IF IsSome(@)
                               THEN Some([extract_from_history(@[1], a.arg) EXCEPT
                                             !.history_length = Len(a.arg)])
                               ELSE @,
                           !.workflow_history = Loaded(a.arg)],
                 << >>)
         [] a.tag = "NamespacesLoaded" ->
               R([s EXCEPT !.namespaces = a.arg,
                           !.namespace_selector_state =
                               IF IsSome(@) THEN @ ELSE select_first(@)],
                 << >>)
         [] a.tag = "SchedulesLoaded" ->
               R([s EXCEPT !.schedules = Loaded(a.arg),
                           !.last_refresh = Some(now_),
                           !.schedule_table_state =
                               IF IsSome(@) THEN @ ELSE select_first(@)],
                 << >>)
         [] a.tag = "ScheduleDetailLoaded" ->
               R([s EXCEPT !.selected_schedule = Some(a.arg)], << >>)
         [] a.tag = "WorkflowCountLoaded" ->
               R([s EXCEPT !.workflow_count = Some(a.arg)], << >>)
         [] a.tag = "TaskQueueDetailLoaded" ->
               R([s EXCEPT !.task_queue_detail = Loaded(a.arg)], << >>)
         [] a.tag = "Refresh" -> R(s, refresh_current_view(s))
         [] a.tag = "Quit" ->
               R([s EXCEPT !.should_quit = TRUE], << Eff("Quit") >>)
         [] a.tag = "Tick" ->
               IF s.polling_enabled
                  /\ (IsSome(s.last_refresh)
                        => duration_ge(now_ - s.last_refresh[1], s.polling_interval))
               THEN R(s, refresh_current_view(s))
               ELSE R(s, << >>)
         [] a.tag = "Error" ->
               LET r1 == apply_backoff(
                            [s EXCEPT !.last_error = Toast(a.arg, now_),
                                      !.error_count = @ + 1])
               IN [r1 EXCEPT !.app.connection_status =
                                 IF @ = Connected THEN ConnectionError(a.arg) ELSE @]
         [] a.tag = "ClearError" -> R([s EXCEPT !.last_error = None], << >>)
         [] a.tag = "TogglePolling" ->
               R([s EXCEPT !.polling_enabled = ~@], << >>)

(***************************************************************************)
(* Keys to actions, src/src/event.rs and src/src/input/commands.rs         *)
(***************************************************************************)
\* KeyEvent: a key code, the character of KeyCode::Char, and the CONTROL modifier
KeyChar(c) == [code |-> "Char", ch |-> c, ctrl |-> FALSE]
KeyCtrl(c) == [code |-> "Char", ch |-> c, ctrl |-> TRUE]
KeyCode(name) == [code |-> name, ch |-> 0, ctrl |-> FALSE]

IsChar(key, c) == key.code = "Char" /\ key.ch = c

K_colon == 58
K_slash == 47
K_question == 63
K_G == 71
K_T == 84
K_c == 99
K_d == 100
K_g == 103
K_h == 104
K_j == 106
K_k == 107
K_l == 108
K_n == 110
K_p == 112
K_q == 113
K_r == 114
K_t == 116
K_u == 117
K_y == 121

CommandDef(name, aliases) == [name |-> name, aliases |-> aliases]

COMMANDS ==
    << CommandDef(S_workflows, {S_wf}),
       CommandDef(S_schedules, {S_sch}),
       CommandDef(S_namespace, {S_ns}),
       CommandDef(S_signal, {S_sig}),
       CommandDef(S_quit, {S_q}),
       CommandDef(S_help, {S_h}) >>

starts_with(s, prefix) ==
    Len(prefix) <= Len(s) /\ SubSeq(s, 1, Len(prefix)) = prefix

matching_commands(input) ==
    LET input_lower == to_lowercase(input)
    IN SelectSeq(COMMANDS,
           LAMBDA cmd : \/ starts_with(cmd.name, input_lower)
                        \/ \E al \in cmd.aliases : starts_with(al, input_lower))

\* str::split_whitespace().next().unwrap_or("")
first_word(s) ==
    LET words == SelectNonEmpty(split(s, C_space))
    IN IF words = << >> THEN << >> ELSE words[1]

\* String::pop
pop(buf) == IF buf = << >> THEN buf ELSE SubSeq(buf, 1, Len(buf) - 1)

\* The operation keys of the view: Action::CancelWorkflow, TerminateWorkflow,
\* PauseSchedule, TriggerSchedule and DeleteSchedule of event.rs are
\* Action::RunOperation(op) of the reducer
view_operation_key(key, view) ==
    IF key.code # "Char" THEN None
    ELSE IF view.kind = "WorkflowExecution"
    THEN CASE key.ch = K_c -> Some(ActArg("RunOperation", "CancelWorkflow"))
           [] key.ch = K_t -> Some(ActArg("RunOperation", "TerminateWorkflow"))
           [] key.ch = K_l /\ view.tag = "Detail" -> Some(Act("NextTab"))
           [] key.ch = K_h /\ view.tag = "Detail" -> Some(Act("PrevTab"))
           [] OTHER -> None
    ELSE CASE key.ch = K_p -> Some(ActArg("RunOperation", "PauseSchedule"))
           [] key.ch = K_T -> Some(ActArg("RunOperation", "TriggerSchedule"))
           [] key.ch = K_d -> Some(ActArg("RunOperation", "DeleteSchedule"))
           [] OTHER -> None

key_to_action(key, view, input_mode, overlay, input_buffer) ==
    CASE overlay.tag = "Help" ->
            IF key.code = "Esc" \/ (key.code = "Char" /\ key.ch \in {K_question, K_q})
            THEN Some(Act("ToggleHelp")) ELSE None
      [] overlay.tag = "Confirm" ->
            IF key.code \in {"Enter", "Esc"}
               \/ (key.code = "Char" /\ key.ch \in {K_y, K_n})
            THEN Some(Act("CloseOverlay")) ELSE None
      [] overlay.tag = "NamespaceSelector" ->
            IF key.code = "Esc" THEN Some(Act("CloseOverlay")) ELSE None
      [] input_mode = "Command" ->
           (CASE key.code = "Esc" -> Some(Act("CloseOverlay"))
              [] key.code = "Enter" -> Some(ActArg("SubmitCommandInput", input_buffer))
              [] key.code = "Tab" ->
                    LET matches == matching_commands(first_word(input_buffer))
                    IN IF matches # << >>
                       THEN Some(ActArg("UpdateInputBuffer",
                                        matches[1].name \o << C_space >>))
                       ELSE None
              [] key.code = "Backspace" ->
                    Some(ActArg("UpdateInputBuffer", pop(input_buffer)))
              [] key.code = "Char" ->
                    Some(ActArg("UpdateInputBuffer", Append(input_buffer, key.ch)))
              [] OTHER -> None)
      [] input_mode = "Search" ->
           (CASE key.code = "Esc" -> Some(Act("CloseOverlay"))
              [] key.code = "Enter" -> Some(ActArg("SubmitSearch", input_buffer))
              [] key.code = "Backspace" ->
                    Some(ActArg("UpdateInputBuffer", pop(input_buffer)))
              [] key.code = "Char" ->
                    Some(ActArg("UpdateInputBuffer", Append(input_buffer, key.ch)))
              [] OTHER -> None)
      [] input_mode = "PendingG" ->
            IF IsChar(key, K_g) THEN Some(Act("NavigateTop")) ELSE Some(Act("Back"))
      [] key.ctrl ->
           (CASE IsChar(key, K_c) -> Some(Act("Quit"))
              [] IsChar(key, K_r) -> Some(Act("Refresh"))
              [] IsChar(key, K_d) -> Some(Act("PageDown"))
              [] IsChar(key, K_u) -> Some(Act("PageUp"))
              [] OTHER -> None)
      [] OTHER ->
           (CASE IsChar(key, K_q) -> Some(Act("Quit"))
              [] IsChar(key, K_colon) -> Some(Act("OpenCommandInput"))
              [] IsChar(key, K_slash) /\ view.tag = "Collection" -> Some(Act("OpenSearch"))
              [] IsChar(key, K_question) -> Some(Act("ToggleHelp"))
              [] IsChar(key, K_j) \/ key.code = "Down" -> Some(Act("NavigateDown"))
              [] IsChar(key, K_k) \/ key.code = "Up" -> Some(Act("NavigateUp"))
              [] IsChar(key, K_g) -> Some(Act("EnterPendingG"))
              [] IsChar(key, K_G) -> Some(Act("NavigateBottom"))
              [] key.code = "Enter" -> Some(Act("Select"))
              [] key.code = "Esc" -> Some(Act("Back"))
              [] key.code = "Tab" -> Some(Act("NextTab"))
              [] key.code = "BackTab" -> Some(Act("PrevTab"))
              [] OTHER -> view_operation_key(key, view))

(***************************************************************************)
(* The main loop and the worker, src/src/main.rs and src/src/worker.rs     *)
(***************************************************************************)
\* render: the table widget of the shown collection, and of the namespace
\* selector when it is open, clamps its selection to the rows it draws
render(s) ==
    LET s1 == IF s.view = Collection("WorkflowExecution") /\ IsSome(data(s.workflows))
              THEN [s EXCEPT !.workflow_table_state =
                                 render_table_state(@, s.workflows.data)]
              ELSE IF s.view = Collection("Schedule") /\ IsSome(data(s.schedules))
              THEN [s EXCEPT !.schedule_table_state =
                                 render_table_state(@, s.schedules.data)]
              ELSE s
    IN IF s1.overlay = OverlayNamespaceSelector
       THEN [s1 EXCEPT !.namespace_selector_state = render_table_state(@, s.namespaces)]
       ELSE s1

\* CliRequest
Req(tag, namespace) == [tag |-> tag, namespace |-> namespace]

\* handle_effects, one effect.  app.search_query of main.rs is the workflow
\* query of the reducer, search_queries[WorkflowExecution]
effect_request(effect, s) ==
    LET query == search_query_for_kind(s, "WorkflowExecution")
    IN CASE effect.tag = "LoadWorkflows" ->
               << [tag |-> "LoadWorkflows", namespace |-> s.namespace, query |-> query,
                   page_size |-> s.page_size, next_page_token |-> << >>] >>
         [] effect.tag = "LoadMoreWorkflows" ->
               << [tag |-> "LoadMoreWorkflows", namespace |-> s.namespace,
                   query |-> query, page_size |-> s.page_size,
                   next_page_token |-> s.next_page_token] >>
         [] effect.tag \in {"LoadWorkflowDetail", "LoadHistory", "CancelWorkflow",
                            "TerminateWorkflow"} ->
               << [tag |-> effect.tag, namespace |-> s.namespace,
                   workflow_id |-> effect.id, run_id |-> effect.run_id] >>
         [] effect.tag = "LoadNamespaces" -> << [tag |-> "LoadNamespaces"] >>
         [] effect.tag = "LoadSchedules" -> << Req("LoadSchedules", s.namespace) >>
         [] effect.tag \in {"LoadScheduleDetail", "TriggerSchedule", "DeleteSchedule"} ->
               << [tag |-> effect.tag, namespace |-> s.namespace,
                   schedule_id |-> effect.id] >>
         [] effect.tag = "LoadWorkflowCount" ->
               << [tag |-> "LoadWorkflowCount", namespace |-> s.namespace,
                   query |-> query] >>
         [] effect.tag = "PauseSchedule" ->
               << [tag |-> "PauseSchedule", namespace |-> s.namespace,
                   schedule_id |-> effect.id, pause |-> effect.pause] >>
         [] effect.tag = "LoadTaskQueueDetail" ->
               << [tag |-> "DescribeTaskQueue", namespace |-> s.namespace,
                   task_queue |-> effect.task_queue] >>
         [] effect.tag = "SignalWorkflow" ->
               << [tag |-> "SignalWorkflow", namespace |-> s.namespace,
                   workflow_id |-> effect.id, run_id |-> effect.run_id,
                   signal_name |-> effect.signal_name, input |-> effect.input] >>
         [] effect.tag = "Quit" -> << >>

\* a loop that sends the requests of one reducer call last effect first
RECURSIVE handle_effects_reversed(_, _)
handle_effects_reversed(effs, s) ==
    IF effs = << >> THEN << >>
    ELSE handle_effects_reversed(Tail(effs), s) \o effect_request(Head(effs), s)

RECURSIVE handle_effects(_, _)
handle_effects(effs, s) ==
    IF effs = << >> THEN << >>
    ELSE effect_request(Head(effs), s) \o handle_effects(Tail(effs), s)

\* confirm_effects with the cancellation and the termination exchanged
confirm_effects_exchanged(confirm) ==
    CASE confirm.op = "CancelWorkflow" ->
            << EffWf("TerminateWorkflow", confirm.target.id, confirm.target.run_id) >>
      [] confirm.op = "TerminateWorkflow" ->
            << EffWf("CancelWorkflow", confirm.target.id, confirm.target.run_id) >>
      [] confirm.op = "DeleteSchedule" ->
            << EffSch("DeleteSchedule", confirm.target.id) >>
      [] confirm.op = "TriggerSchedule" ->
            << EffSch("TriggerSchedule", confirm.target.id) >>

\* the effect of a confirmed operation: ConfirmAction::CancelWorkflow(id, run_id)
\* and its siblings of main.rs are the (op, target) of the Confirm overlay
confirm_effects(confirm) ==
    CASE confirm.op = "CancelWorkflow" ->
            << EffWf("CancelWorkflow", confirm.target.id, confirm.target.run_id) >>
      [] confirm.op = "TerminateWorkflow" ->
            << EffWf("TerminateWorkflow", confirm.target.id, confirm.target.run_id) >>
      [] confirm.op = "DeleteSchedule" ->
            << EffSch("DeleteSchedule", confirm.target.id) >>
      [] confirm.op = "TriggerSchedule" ->
            << EffSch("TriggerSchedule", confirm.target.id) >>

\* a loop that maps every key as if no overlay were open
on_key_past_overlay(s, key, now_) ==
    LET action == key_to_action(key, s.view, s.input_mode, OverlayNone,
                                s.input_buffer)
    IN IF IsSome(action) THEN update(s, action[1], now_) ELSE R(s, << >>)

\* a loop whose key mapper does not see the help
on_key_through_help(s, key, now_) ==
    LET action == key_to_action(key, s.view, s.input_mode,
                                IF s.overlay = OverlayHelp THEN OverlayNone
                                ELSE s.overlay,
                                s.input_buffer)
    IN IF IsSome(action) THEN update(s, action[1], now_) ELSE R(s, << >>)

\* the body of `AppEvent::Key(key)`: what one key does to the drawn state
on_key(s, key, now_) ==
    IF s.overlay.tag = "Confirm"
    THEN IF key.code = "Enter" \/ IsChar(key, K_y)
         THEN R([s EXCEPT !.overlay = OverlayNone], confirm_effects(s.overlay))
         ELSE IF key.code = "Esc" \/ IsChar(key, K_n)
         THEN R([s EXCEPT !.overlay = OverlayNone], << >>)
         ELSE R(s, << >>)
    ELSE IF s.overlay = OverlayNamespaceSelector
            /\ (key.code \in {"Down", "Up", "Enter"}
                  \/ (key.code = "Char" /\ key.ch \in {K_j, K_k, K_g, K_G}))
    THEN CASE IsChar(key, K_j) \/ key.code = "Down" ->
                 R([s EXCEPT !.namespace_selector_state = select_next(@)], << >>)
           [] IsChar(key, K_k) \/ key.code = "Up" ->
                 R([s EXCEPT !.namespace_selector_state = select_previous(@)], << >>)
           [] key.code = "Enter" ->
                 LET idx == s.namespace_selector_state
                     ns == IF IsSome(idx) THEN Get(s.namespaces, idx[1]) ELSE None
                 IN IF IsSome(ns)
                    THEN update(s, ActArg("SwitchNamespace", ns[1].name), now_)
                    ELSE R(s, << >>)
           [] IsChar(key, K_g) ->
                 R([s EXCEPT !.namespace_selector_state = select_first(@)], << >>)
           [] IsChar(key, K_G) ->
                 R([s EXCEPT !.namespace_selector_state = select_last(@)], << >>)
    ELSE LET action == key_to_action(key, s.view, s.input_mode, s.overlay,
                                     s.input_buffer)
         IN IF IsSome(action) THEN update(s, action[1], now_) ELSE R(s, << >>)

\* the reducer action of a key, if the key reaches the reducer
key_action(s, key) ==
    IF s.overlay.tag = "Confirm" THEN None
    ELSE IF s.overlay = OverlayNamespaceSelector
            /\ (key.code \in {"Down", "Up", "Enter"}
                  \/ (key.code = "Char" /\ key.ch \in {K_j, K_k, K_g, K_G}))
    THEN LET idx == s.namespace_selector_state
             ns == IF IsSome(idx) THEN Get(s.namespaces, idx[1]) ELSE None
         IN IF key.code = "Enter" /\ IsSome(ns)
            THEN Some(ActArg("SwitchNamespace", ns[1].name)) ELSE None
    ELSE key_to_action(key, s.view, s.input_mode, s.overlay, s.input_buffer)

\* a worker that answers every request alike
process_refresh(request, reply) == Act("Refresh")

\* CliWorker::process: the action sent back for a request and the backend's reply
process(request, reply) ==
    IF ~reply.ok
    THEN ActArg("Error",
                Msg(CASE request.tag \in {"LoadWorkflows", "LoadMoreWorkflows"} ->
                            "failed to load workflows: "
                      [] request.tag = "LoadWorkflowDetail" ->
                            "failed to load workflow detail: "
                      [] request.tag = "LoadHistory" -> "failed to load history: "
                      [] request.tag = "LoadNamespaces" -> "failed to load namespaces: "
                      [] request.tag = "LoadWorkflowCount" -> "failed to count workflows: "
                      [] request.tag = "LoadSchedules" -> "failed to load schedules: "
                      [] request.tag = "LoadScheduleDetail" ->
                            "failed to load schedule detail: "
                      [] request.tag = "CancelWorkflow" -> "failed to cancel workflow: "
                      [] request.tag = "TerminateWorkflow" ->
                            "failed to terminate workflow: "
                      [] request.tag = "PauseSchedule" -> "failed to update schedule: "
                      [] request.tag = "TriggerSchedule" -> "failed to trigger schedule: "
                      [] request.tag = "DeleteSchedule" -> "failed to delete schedule: "
                      [] request.tag = "DescribeTaskQueue" ->
                            "failed to describe task queue: "
                      [] request.tag = "SignalWorkflow" -> "failed to signal workflow: ",
                    reply.error))
    ELSE CASE request.tag = "LoadWorkflows" ->
                 ActPage("WorkflowsLoaded", reply.value[1], reply.value[2])
           [] request.tag = "LoadMoreWorkflows" ->
                 ActPage("MoreWorkflowsLoaded", reply.value[1], reply.value[2])
           [] request.tag = "LoadWorkflowDetail" ->
                 ActArg("WorkflowDetailLoaded", reply.value)
           [] request.tag = "LoadHistory" -> ActArg("HistoryLoaded", reply.value)
           [] request.tag = "LoadNamespaces" -> ActArg("NamespacesLoaded", reply.value)
           [] request.tag = "LoadWorkflowCount" ->
                 ActArg("WorkflowCountLoaded", reply.value)
           [] request.tag = "LoadSchedules" -> ActArg("SchedulesLoaded", reply.value)
           [] request.tag = "LoadScheduleDetail" ->
                 ActArg("ScheduleDetailLoaded", reply.value)
           [] request.tag = "DescribeTaskQueue" ->
                 ActArg("TaskQueueDetailLoaded", reply.value)
           [] request.tag \in {"CancelWorkflow", "TerminateWorkflow", "PauseSchedule",
                               "TriggerSchedule", "DeleteSchedule", "SignalWorkflow"} ->
                 Act("Refresh")

(***************************************************************************)
(* The running program: run_tui's loop, the worker task and the backend    *)
(***************************************************************************)
S_default == << 100 >>     \* the namespace of the session, "d"
S_other == << 101 >>       \* a second namespace of the server, "e"
S_backend_error == << 120 >>  \* the text of a backend error, "x"

\* the records of the backend, numbered
WfRow(i) == [workflow_id |-> << 119, i >>, run_id |-> << 114, i >>,
             task_queue |-> << 116 >>]
WfRows(first, n) == [i \in 1..n |-> WfRow(first + i)]
SchRow(i) == [schedule_id |-> << 115, i >>,
              state |-> IF i % 2 = 0 THEN "Paused" ELSE "Active"]
SchRows(n) == [i \in 1..n |-> SchRow(i)]
\* the state the backend describes a schedule with: that of its row
ScheduleStateOf(schedule_id) ==
    IF Len(schedule_id) = 2 /\ schedule_id[1] = 115
    THEN SchRow(schedule_id[2]).state ELSE "Active"
WfDetailOf(workflow_id, run_id) ==
    [summary |-> [workflow_id |-> workflow_id,
                  run_id |-> IF IsSome(run_id) THEN run_id[1] ELSE << 114 >>,
                  task_queue |-> << 116 >>],
     input |-> None, output |-> None, failure |-> None, history_length |-> 0]
HistoryOf(workflow_id) ==
    << [event_type |-> "WorkflowExecutionStarted", input |-> Some(1),
        result |-> None, failure |-> None] >>
NamespacesOf(names) == [i \in 1..Len(names) |-> [name |-> names[i]]]

\* a continuation token is the number of rows served so far
TokenAt(n) == << n >>
token_offset(token) == IF token = << >> THEN 0 ELSE token[1]

\* a backend whose calls to count the workflows do not return
Replies_hanging(request, w) ==
    IF request.tag = "LoadWorkflowCount" THEN { } ELSE { Err(S_backend_error) }

\* what the backend may answer to a request: `w` gives the pages (a length, and
\* whether the page comes with a continuation token), the workflow counts, the
\* schedule list lengths and whether calls may fail
Replies(request, w) ==
    (IF w.may_fail THEN { Err(S_backend_error) } ELSE { })
    \cup
    CASE request.tag \in {"LoadWorkflows", "LoadMoreWorkflows"} ->
            LET first == token_offset(request.next_page_token)
            IN { Ok(<< WfRows(first, p[1]),
                       IF p[2] THEN TokenAt(first + p[1]) ELSE << >> >>) :
                    p \in w.pages }
      [] request.tag = "LoadWorkflowDetail" ->
            { Ok(WfDetailOf(request.workflow_id, request.run_id)) }
      [] request.tag = "LoadHistory" -> { Ok(HistoryOf(request.workflow_id)) }
      [] request.tag = "LoadNamespaces" ->
            { Ok(NamespacesOf(<< S_default, S_other >>)) }
      [] request.tag = "LoadWorkflowCount" -> { Ok(n) : n \in w.counts }
      [] request.tag = "LoadSchedules" -> { Ok(SchRows(n)) : n \in w.schedule_lens }
      [] request.tag = "LoadScheduleDetail" ->
            { Ok([schedule_id |-> request.schedule_id,
                  state |-> ScheduleStateOf(request.schedule_id)]) }
      [] request.tag = "DescribeTaskQueue" ->
            { Ok([name |-> request.task_queue]) }
      [] OTHER -> { Ok(<< >>) }

\* the TemporalClient method CliWorker::process calls for a request
backend_call(request) ==
    CASE request.tag \in {"LoadWorkflows", "LoadMoreWorkflows"} -> "list_workflows"
      [] request.tag = "LoadWorkflowDetail" -> "describe_workflow"
      [] request.tag = "LoadHistory" -> "get_history"
      [] request.tag = "LoadNamespaces" -> "list_namespaces"
      [] request.tag = "LoadWorkflowCount" -> "count_workflows"
      [] request.tag = "LoadSchedules" -> "list_schedules"
      [] request.tag = "LoadScheduleDetail" -> "describe_schedule"
      [] request.tag = "CancelWorkflow" -> "cancel_workflow"
      [] request.tag = "TerminateWorkflow" -> "terminate_workflow"
      [] request.tag = "PauseSchedule" -> "patch_schedule"
      [] request.tag = "TriggerSchedule" -> "trigger_schedule"
      [] request.tag = "DeleteSchedule" -> "delete_schedule"
      [] request.tag = "DescribeTaskQueue" -> "describe_task_queue"
      [] request.tag = "SignalWorkflow" -> "signal_workflow"

\* the worker task between requests: no call in flight; `taken` are the
\* requests received so far, `called` the backend calls made and `answered`
\* the Actions sent, each with the request it answers
WorkerIdle == [calls |-> << >>, taken |-> << >>, called |-> << >>, answered |-> << >>]

\* the Actions CliWorker::process sends for a successful load
DataLoaded ==
    { "WorkflowsLoaded", "MoreWorkflowsLoaded", "WorkflowDetailLoaded",
      "HistoryLoaded", "NamespacesLoaded", "WorkflowCountLoaded", "SchedulesLoaded",
      "ScheduleDetailLoaded", "TaskQueueDetailLoaded" }

\* history of the Actions received: the Error actions received in a row, none
\* other between them, and the error_count the first of them found
NoErrors == [n |-> 0, from |-> 0]
error_run(pre, action, errors) ==
    IF action.tag = "Error"
    THEN [n |-> errors.n + 1,
          from |-> IF errors.n = 0 THEN pre.error_count ELSE errors.from]
    ELSE NoErrors

\* run_tui up to the loop: the configured App and the three initial requests
SystemInit(poll_interval) ==
    /\ app = AppConfigured(S_default, poll_interval)
    /\ requests = << [tag |-> "LoadNamespaces"],
                     [tag |-> "LoadWorkflows", namespace |-> S_default,
                      query |-> None, page_size |-> 50, next_page_token |-> << >>],
                     [tag |-> "LoadWorkflowCount", namespace |-> S_default,
                      query |-> None] >>
    /\ results = << >>
    /\ effects = << >>
    /\ event = [tag |-> "Init", key |-> None, action |-> "-", errors |-> NoErrors]
    /\ now = 0
    /\ crashed = FALSE
    /\ worker = WorkerIdle

Running == ~crashed /\ ~app.should_quit

\* a cursor no table has clamped is followed down from usize::MAX for
\* MaxUnclamped steps, and up to a page past the rows
CursorFollowed(selected) ==
    IF selected = None THEN TRUE
    ELSE IF selected[1] <= MaxRows + page_height THEN TRUE
    ELSE selected[1] >= USIZE_MAX - MaxUnclamped

\* the end of a loop iteration: the new state is kept and the effects are sent
\* (a step that sends is explored while at most `cap` requests and Actions are
\* in the two channels after it, scrolling up to MaxScroll lines, or a
\* page, from the top and a page from the bottom);
\* a failed arithmetic check ends the process in a build that checks, and
\* wraps in a build that does not
Finish(r, pre, ev, cap) ==
    \E panics \in (IF r.fault THEN BOOLEAN ELSE {FALSE}) :
        /\ crashed' = panics
        /\ app' = IF panics THEN pre ELSE r.app
        /\ effects' = IF panics THEN << >> ELSE r.effects
        /\ requests' = IF panics THEN requests
                       ELSE requests \o handle_effects(r.effects, r.app)
        /\ requests' # requests => Len(requests') + Len(results) <= cap
        /\ app'.detail_scroll \in (0..MaxScroll)
              \cup {page_height, U16_MAX - page_height, U16_MAX}
        /\ CursorFollowed(app'.workflow_table_state)
        /\ CursorFollowed(app'.schedule_table_state)
        /\ event' = ev

\* the keys the user has: keys.normal on a view, keys.overlay on an overlay; in
\* the command line the user types one of keys.lines, a key at a time, erases
\* a character if Backspace is among keys.normal, or leaves
KeysFor(s, keys) ==
    IF s.overlay # OverlayNone THEN keys.overlay
    ELSE IF s.input_mode \in {"Command", "Search"}
    THEN { KeyCode("Esc") }
         \cup { KeyCode("Enter") : line \in { l \in keys.lines : l = s.input_buffer } }
         \cup { KeyChar(line[Len(s.input_buffer) + 1]) :
                  line \in { l \in keys.lines : /\ Len(l) > Len(s.input_buffer)
                                                 /\ starts_with(l, s.input_buffer) } }
         \cup { key \in keys.normal : key.code = "Backspace" /\ s.input_buffer # << >> }
    ELSE keys.normal

\* loop iteration: draw, then AppEvent::Key
KeyEvent(keys, cap) ==
    /\ Running
    /\ LET pre == render(app)
       IN \E key \in KeysFor(pre, keys) :
             /\ Finish(on_key(pre, key, now), pre,
                       [tag |-> "Key", key |-> Some(key), action |-> "-",
                        errors |-> event.errors], cap)
             /\ UNCHANGED <<results, now, worker>>

\* loop iteration: draw, then AppEvent::Tick; the timer fires once a second
TickEvent(cap, max_time) ==
    /\ Running
    /\ now < max_time
    /\ now' = now + 1
    /\ LET pre == render(app)
       IN Finish(update(pre, Act("Tick"), now'), pre,
                 [tag |-> "Tick", key |-> None, action |-> "Tick",
                  errors |-> event.errors], cap)
    /\ UNCHANGED <<results, worker>>

\* App::update called with Action::RunOperation for any operation of the
\* registry: the key map offers only the operations of the kind shown
OperationEvent(ops, cap) ==
    /\ Running
    /\ LET pre == render(app)
       IN \E op \in ops :
             Finish(update(pre, ActArg("RunOperation", op), now), pre,
                    [tag |-> "Operation", key |-> None, action |-> op,
                     errors |-> event.errors], cap)
    /\ UNCHANGED <<results, now, worker>>

\* loop iteration: draw, then an Action received from the worker
ActionReceived(cap, max_rows, max_errors) ==
    /\ Running
    /\ results # << >>
    /\ LET pre == render(app)
           action == Head(results)
       IN /\ action.tag = "MoreWorkflowsLoaded"
                => Len(pre.workflows.data) + Len(action.rows) <= max_rows
          /\ action.tag = "Error" => pre.error_count < max_errors
          /\ Finish(update(pre, action, now), pre,
                    [tag |-> "Action", key |-> None, action |-> action.tag,
                     errors |-> error_run(pre, action, event.errors)], cap)
    /\ results' = Tail(results)
    /\ UNCHANGED <<now, worker>>

\* CliWorker::run, a step at a time.  The loop receives the next request
\* only after `self.process(request).await` has returned and its Action is sent
may_recv_concurrent(wk) == TRUE
may_recv(wk) == wk.calls = << >>

\* rx.recv() returns a request and process() starts its backend call
WorkerRecv(max_log) ==
    /\ requests # << >>
    /\ may_recv(worker)
    /\ Len(worker.taken) < max_log
    /\ LET request == Head(requests)
       IN worker' = [worker EXCEPT
             !.calls = Append(@, request),
             !.taken = Append(@, request),
             !.called = Append(@, [op |-> backend_call(request),
                                   request |-> request])]
    /\ requests' = Tail(requests)
    /\ effects' = << >>
    /\ event' = [tag |-> "Recv", key |-> None, action |-> "-",
                 errors |-> event.errors]
    /\ UNCHANGED <<app, results, now, crashed>>

\* a backend call returns; process() turns the outcome into an Action and
\* run() sends it
WorkerReply(w) ==
    /\ \E i \in 1..Len(worker.calls) :
          \E reply \in Replies(worker.calls[i], w) :
             LET action == process(worker.calls[i], reply)
             IN /\ results' = Append(results, action)
                /\ worker' = [worker EXCEPT
                      !.calls = SubSeq(@, 1, i - 1) \o SubSeq(@, i + 1, Len(@)),
                      !.answered = Append(@, [request |-> worker.calls[i],
                                              ok |-> reply.ok,
                                              action |-> action])]
    /\ effects' = << >>
    /\ event' = [tag |-> "Worker", key |-> None, action |-> "-",
                 errors |-> event.errors]
    /\ UNCHANGED <<app, requests, now, crashed>>

\* CliWorker::run, a request at a time: take a request, call the backend, send
\* the action back (where the call in flight is not looked at)
WorkerRun(w) ==
    /\ requests # << >>
    /\ \E reply \in Replies(Head(requests), w) :
          results' = Append(results, process(Head(requests), reply))
    /\ requests' = Tail(requests)
    /\ effects' = << >>
    /\ event' = [tag |-> "Worker", key |-> None, action |-> "-",
                 errors |-> event.errors]
    /\ UNCHANGED <<app, now, crashed, worker>>

(***************************************************************************)
(* Runs of the pure functions: the inputs are drawn in the initial state   *)
(* and the function is applied by an action.                               *)
(***************************************************************************)
CodecIdle == [phase |-> "idle"]
ComposeIdle == [phase |-> "idle"]

\* 'a', '/', '+' and U+00E9 (two bytes in UTF-8)
UriAlphabet == {97, 47, 43, 233}
UriStrs == StringsUpTo(UriAlphabet, MaxUriStr)

\* the Locations whose strings are drawn from `strs`
LeafSegments(strs) ==
    { WfCollection(q) : q \in Options(strs) }
    \cup { WfDetail(w, r, tb) : w \in strs, r \in Options(strs),
                                tb \in Options(strs) }
    \cup { WfActivities(w, a) : w \in strs, a \in Options(strs) }
    \cup { SchCollection(q) : q \in Options(strs) }
    \cup { SchDetail(sc) : sc \in strs }
    \cup { SchWorkflows(sc, q) : sc \in strs, q \in Options(strs) }

\* a stack is its leaf, possibly under the collection it was opened from
ParentSegments == { WfCollection(None), SchCollection(None) }
SegmentStacks(strs) ==
    { << l >> : l \in LeafSegments(strs) }
    \cup { << p, l >> : p \in ParentSegments, l \in LeafSegments(strs) }

Locations(strs) == { Location(ns, st) : ns \in strs, st \in SegmentStacks(strs) }

CodecInit ==
    codec \in { [phase |-> "start", location |-> l, uri |-> << >>,
                 result |-> Err("-")] : l \in Locations(UriStrs) }

Format ==
    /\ codec.phase = "start"
    /\ codec' = [codec EXCEPT !.phase = "formatted",
                              !.uri = format_deep_link(codec.location)]

Parse ==
    /\ codec.phase = "formatted"
    /\ codec' = [codec EXCEPT !.phase = "parsed",
                              !.result = parse_deep_link(codec.uri)]

\* ' ', '\'' and 'a'
QueryAlphabet == {32, 39, 97}
QueryStrs == StringsUpTo(QueryAlphabet, MaxStr)

ComposeInit ==
    compose \in { [phase |-> "start", schedule_id |-> s, extra |-> f, out |-> << >>]
                  : s \in QueryStrs, f \in Options(QueryStrs) }

Combine ==
    /\ compose.phase = "start"
    /\ compose' = [compose EXCEPT
            !.phase = "done",
            !.out = combine_schedule_workflow_query(compose.schedule_id,
                                                    compose.extra)]

\* the parts of the state a run of a pure function leaves alone
NoApp == [phase |-> "idle"]
SystemIdle ==
    /\ app = NoApp /\ requests = << >> /\ results = << >>
    /\ effects = << >> /\ event = [tag |-> "Init"] /\ now = 0 /\ crashed = FALSE
    /\ worker = WorkerIdle

SpecCodecInit == SystemIdle /\ CodecInit /\ compose = ComposeIdle
SpecCodecNext ==
    \/ Format /\ UNCHANGED <<sys, compose>>
    \/ Parse /\ UNCHANGED <<sys, compose>>
SpecCodec == SpecCodecInit /\ [][SpecCodecNext]_vars

SpecComposeInit == SystemIdle /\ ComposeInit /\ codec = CodecIdle
SpecComposeNext ==
    Combine /\ UNCHANGED <<sys, codec>>
SpecCompose == SpecComposeInit /\ [][SpecComposeNext]_vars

(***************************************************************************)
(* Runs of the parser alone: a URI is written from its parts, scheme,      *)
(* authority, path segments and query, and parsed.                         *)
(***************************************************************************)
\* the segments a path is written with: the kinds, the sub-route and an id
RouteWords == { S_workflows, S_schedules, S_activities, << 97 >> }

\* what comes before the route: nothing, the word alone, the word and a
\* namespace, another word and a namespace
PathHeads ==
    { << >>, << S_namespaces >>, << S_namespaces, S_default >>,
      << << 97 >>, S_default >> }

UriParts(max_route) ==
    [ scheme : Options({ S_temporal, << 120 >> }),
      authority : { S_tui, << 120 >> },
      head : PathHeads,
      route : StringsUpTo(RouteWords, max_route),
      query : Options({ << 113, 61, 97 >> }) ]              \* "q=a"

\* the text of the parts
UriText(p) ==
    (IF IsSome(p.scheme) THEN p.scheme[1] \o S_scheme_sep ELSE << >>)
    \o p.authority
    \o Concat([i \in 1..Len(p.head) |-> << C_slash >> \o p.head[i]])
    \o Concat([i \in 1..Len(p.route) |-> << C_slash >> \o p.route[i]])
    \o (IF IsSome(p.query) THEN << C_question >> \o p.query[1] ELSE << >>)

ParseInit ==
    codec \in { [phase |-> "formatted", parts |-> p, uri |-> UriText(p),
                 result |-> Err("-")] : p \in UriParts(MaxRoute) }

SpecParseInit == SystemIdle /\ ParseInit /\ compose = ComposeIdle
SpecParseNext == Parse /\ UNCHANGED <<sys, compose>>
SpecParse == SpecParseInit /\ [][SpecParseNext]_vars

(***************************************************************************)
(* Sessions.  Each specification runs the whole program: the user's keys,  *)
(* the timer, the worker and the backend, for one way of using it.         *)
(***************************************************************************)
Pure == codec = CodecIdle /\ compose = ComposeIdle

\* operations and their confirmation, on workflows and on schedules: the user
\* runs the operations of the view, opens a row, goes back, switches to the
\* schedules with `:sch`, and answers the Confirm overlay with any key
OperationKeys ==
    [ normal |-> { KeyChar(K_c), KeyChar(K_t), KeyChar(K_p), KeyChar(K_T),
                   KeyChar(K_d), KeyChar(K_colon), KeyCode("Enter"), KeyCode("Esc") },
      lines |-> { S_sch },
      overlay |-> { KeyChar(K_y), KeyChar(K_n), KeyChar(K_j),
                    KeyCode("Enter"), KeyCode("Esc") } ]
OperationBackend ==
    [may_fail |-> FALSE, pages |-> {<< 1, FALSE >>},
     counts |-> {1}, schedule_lens |-> {1}]

OperationKey == KeyEvent(OperationKeys, MaxKeyQueue)
OperationAction == ActionReceived(MaxQueue, MaxRows, MaxErrors)
OperationWorker == WorkerRun(OperationBackend)

Init == SystemInit(Secs(3)) /\ Pure
Next ==
    \/ OperationKey /\ UNCHANGED <<codec, compose>>
    \/ OperationAction /\ UNCHANGED <<codec, compose>>
    \/ OperationWorker /\ UNCHANGED <<codec, compose>>
Spec == Init /\ [][Next]_vars

\* polling and its backoff: the timer polls the workflow list and the backend
\* may fail any call; every --poll-interval up to MaxBase seconds, and up to
\* MaxBaseHigh * 2^59 seconds above, is a start
BackoffBackend ==
    [may_fail |-> TRUE, pages |-> {<< 0, FALSE >>},
     counts |-> {0}, schedule_lens |-> {0}]

BackoffTick == TickEvent(MaxQueue, MaxTime)
BackoffAction == ActionReceived(MaxQueue, MaxRows, MaxErrors)
BackoffWorker == WorkerRun(BackoffBackend)

SpecBackoffInit ==
    /\ \E hi \in 0..MaxBaseHigh, lo \in 0..MaxBase : SystemInit(HugeSecs(hi, lo))
    /\ Pure
SpecBackoffNext ==
    \/ BackoffTick /\ UNCHANGED <<codec, compose>>
    \/ BackoffAction /\ UNCHANGED <<codec, compose>>
    \/ BackoffWorker /\ UNCHANGED <<codec, compose>>
SpecBackoff == SpecBackoffInit /\ [][SpecBackoffNext]_vars

\* paging: the user moves down the rows a line or a page at a time, switches to
\* the schedules with `:sch` and to another namespace with `:ns e`; the backend
\* serves full pages of 20 workflows, with or without a continuation token, and
\* last pages of 2
L_ns_other == S_ns \o << C_space >> \o S_other
PagingKeys ==
    [ normal |-> { KeyChar(K_j), KeyCtrl(K_d), KeyChar(K_colon) },
      lines |-> { S_sch, L_ns_other },
      overlay |-> { KeyCode("Esc") } ]
PagingBackend ==
    [may_fail |-> FALSE,
     pages |-> {<< 20, TRUE >>, << 20, FALSE >>, << 2, FALSE >>},
     counts |-> {22}, schedule_lens |-> {1}]

PagingKey == KeyEvent(PagingKeys, MaxQueue)
PagingAction == ActionReceived(MaxQueue, MaxRows, MaxErrors)
PagingWorker == WorkerRun(PagingBackend)

SpecPagingInit == SystemInit(Secs(3)) /\ Pure
SpecPagingNext ==
    \/ PagingKey /\ UNCHANGED <<codec, compose>>
    \/ PagingAction /\ UNCHANGED <<codec, compose>>
    \/ PagingWorker /\ UNCHANGED <<codec, compose>>
SpecPaging == SpecPagingInit /\ [][SpecPagingNext]_vars

(***************************************************************************)
(* Deep links: the user opens links with `:open`, goes to the schedules    *)
(* with `:sch` and opens the row under the cursor.                         *)
(***************************************************************************)
\* "temporal://tui/namespaces/<ns>/schedules/<id>/workflows[?q=<filter>]", the
\* id and the filter written as the user types them
UriScheduleWorkflows(ns, id, filter) ==
    S_uri_prefix \o S_path_namespaces \o ns \o S_path_schedules
       \o << C_slash >> \o id \o S_path_workflows
       \o (IF IsSome(filter)
           THEN << C_question >> \o S_q \o << C_equals >> \o filter[1]
           ELSE << >>)
L_open(uri) == S_open \o << C_space >> \o uri

\* schedule a with filter a, schedule ' with filter ` a` (typed `+a`),
\* schedule a with a blank filter (typed `+`), schedule a with no filter
GoodLinks ==
    { UriScheduleWorkflows(S_default, << 97 >>, Some(<< 97 >>)),
      UriScheduleWorkflows(S_default, << C_quote >>, Some(<< C_plus, 97 >>)),
      UriScheduleWorkflows(S_default, << 97 >>, Some(<< C_plus >>)),
      UriScheduleWorkflows(S_default, << 97 >>, None) }
\* "x", "temporal://x", "temporal://tui/x", "temporal://tui/namespaces/d",
\* "temporal://tui/namespaces/d/x"
BadLinks ==
    { << 120 >>,
      S_temporal \o S_scheme_sep \o << 120 >>,
      S_uri_prefix \o << C_slash, 120 >>,
      S_uri_prefix \o S_path_namespaces \o S_default,
      S_uri_prefix \o S_path_namespaces \o S_default \o << C_slash, 120 >> }

LinkKeys ==
    [ normal |-> { KeyChar(K_colon), KeyCode("Enter") },
      lines |-> { L_open(u) : u \in GoodLinks } \cup { S_sch },
      overlay |-> { KeyCode("Esc") } ]
LinkBackend ==
    [may_fail |-> FALSE, pages |-> {<< 2, TRUE >>}, counts |-> {2},
     schedule_lens |-> {1}]

LinkKey == KeyEvent(LinkKeys, MaxKeyQueue)
LinkAction == ActionReceived(MaxQueue, MaxRows, MaxErrors)
LinkWorker == WorkerRun(LinkBackend)

SpecLinkInit == SystemInit(Secs(3)) /\ Pure
SpecLinkNext ==
    \/ LinkKey /\ UNCHANGED <<codec, compose>>
    \/ LinkAction /\ UNCHANGED <<codec, compose>>
    \/ LinkWorker /\ UNCHANGED <<codec, compose>>
SpecLink == SpecLinkInit /\ [][SpecLinkNext]_vars

\* links that do not parse and `:open` with no link, after a link that set a
\* search query or without one
BadLinkKeys ==
    [ normal |-> { KeyChar(K_colon), KeyCode("Enter") },
      lines |-> { L_open(u) : u \in BadLinks }
                \cup { S_open, S_sch,
                       L_open(UriScheduleWorkflows(S_default, << 97 >>, None)) },
      overlay |-> { KeyCode("Esc") } ]

BadLinkKey == KeyEvent(BadLinkKeys, MaxKeyQueue)
BadLinkAction == ActionReceived(MaxQueue, MaxRows, MaxErrors)
BadLinkWorker == WorkerRun(LinkBackend)

SpecBadLinkInit == SystemInit(Secs(3)) /\ Pure
SpecBadLinkNext ==
    \/ BadLinkKey /\ UNCHANGED <<codec, compose>>
    \/ BadLinkAction /\ UNCHANGED <<codec, compose>>
    \/ BadLinkWorker /\ UNCHANGED <<codec, compose>>
SpecBadLink == SpecBadLinkInit /\ [][SpecBadLinkNext]_vars

\* namespace switches: `:ns e`, the picker (`:ns`, j, Enter), a link into
\* namespace e and a link into the namespace of the session
NamespaceKeys ==
    [ normal |-> { KeyChar(K_colon), KeyCode("Enter") },
      lines |-> { S_ns, L_ns_other,
                  L_open(UriScheduleWorkflows(S_other, << 97 >>, Some(<< 97 >>))),
                  L_open(UriScheduleWorkflows(S_default, << 97 >>, Some(<< 97 >>))) },
      overlay |-> { KeyChar(K_j), KeyCode("Enter"), KeyCode("Esc") } ]

NamespaceKey == KeyEvent(NamespaceKeys, MaxKeyQueue)
NamespaceAction == ActionReceived(MaxQueue, MaxRows, MaxErrors)
NamespaceWorker == WorkerRun(LinkBackend)

SpecNamespaceInit == SystemInit(Secs(3)) /\ Pure
SpecNamespaceNext ==
    \/ NamespaceKey /\ UNCHANGED <<codec, compose>>
    \/ NamespaceAction /\ UNCHANGED <<codec, compose>>
    \/ NamespaceWorker /\ UNCHANGED <<codec, compose>>
SpecNamespace == SpecNamespaceInit /\ [][SpecNamespaceNext]_vars

(***************************************************************************)
(* Browsing: a backend with two workflows and one schedule.                *)
(***************************************************************************)
BrowseBackend ==
    [may_fail |-> FALSE, pages |-> {<< 2, FALSE >>}, counts |-> {2},
     schedule_lens |-> {1}]

\* tabs: the user opens rows, goes back, switches tabs, and goes to the
\* schedules with `:sch`
TabKeys ==
    [ normal |-> { KeyCode("Enter"), KeyCode("Esc"), KeyCode("Tab"),
                   KeyCode("BackTab"), KeyChar(K_l), KeyChar(K_h),
                   KeyChar(K_colon) },
      lines |-> { S_sch },
      overlay |-> { KeyCode("Esc") } ]

TabKey == KeyEvent(TabKeys, MaxKeyQueue)
TabAction == ActionReceived(MaxQueue, MaxRows, MaxErrors)
TabWorker == WorkerRun(BrowseBackend)

SpecTabsInit == SystemInit(Secs(3)) /\ Pure
SpecTabsNext ==
    \/ TabKey /\ UNCHANGED <<codec, compose>>
    \/ TabAction /\ UNCHANGED <<codec, compose>>
    \/ TabWorker /\ UNCHANGED <<codec, compose>>
SpecTabs == SpecTabsInit /\ [][SpecTabsNext]_vars

\* overlays: the user opens the help, the namespace picker (`:ns`) and the
\* confirmation of a cancel, and presses every kind of key on them
OverlayKeys ==
    [ normal |-> { KeyCode("Enter"), KeyChar(K_question), KeyChar(K_c),
                   KeyChar(K_colon) },
      lines |-> { S_ns },
      overlay |-> { KeyCode("Esc"), KeyCode("Enter"), KeyCode("Tab"),
                    KeyCode("Backspace"), KeyChar(K_question), KeyChar(K_q),
                    KeyChar(K_y), KeyChar(K_n), KeyChar(K_j), KeyChar(K_k),
                    KeyChar(K_g), KeyChar(K_G), KeyChar(K_c), KeyChar(K_colon),
                    KeyChar(K_slash), KeyCtrl(K_c), KeyChar(97) } ]

OverlayKey == KeyEvent(OverlayKeys, MaxKeyQueue)
OverlayAction == ActionReceived(MaxQueue, MaxRows, MaxErrors)
OverlayWorker == WorkerRun(BrowseBackend)

SpecOverlayInit == SystemInit(Secs(3)) /\ Pure
SpecOverlayNext ==
    \/ OverlayKey /\ UNCHANGED <<codec, compose>>
    \/ OverlayAction /\ UNCHANGED <<codec, compose>>
    \/ OverlayWorker /\ UNCHANGED <<codec, compose>>
SpecOverlay == SpecOverlayInit /\ [][SpecOverlayNext]_vars

\* chords: the user types g and then g or another key, on the collections and
\* on the detail views
ChordKeys ==
    [ normal |-> { KeyCode("Enter"), KeyCode("Esc"), KeyChar(K_g), KeyChar(K_j),
                   KeyChar(K_G), KeyChar(K_colon) },
      lines |-> { S_sch },
      overlay |-> { KeyCode("Esc") } ]

ChordKey == KeyEvent(ChordKeys, MaxKeyQueue)
ChordAction == ActionReceived(MaxQueue, MaxRows, MaxErrors)
ChordWorker == WorkerRun(BrowseBackend)

SpecChordInit == SystemInit(Secs(3)) /\ Pure
SpecChordNext ==
    \/ ChordKey /\ UNCHANGED <<codec, compose>>
    \/ ChordAction /\ UNCHANGED <<codec, compose>>
    \/ ChordWorker /\ UNCHANGED <<codec, compose>>
SpecChord == SpecChordInit /\ [][SpecChordNext]_vars

(***************************************************************************)
(* The worker task a step at a time, on a backend whose calls may fail,    *)
(* while the user runs operations and opens records.                       *)
(***************************************************************************)
WorkerKeys ==
    [ normal |-> { KeyChar(K_c), KeyChar(K_p), KeyChar(K_colon),
                   KeyCode("Enter"), KeyCode("Esc") },
      lines |-> { S_sch },
      overlay |-> { KeyChar(K_y), KeyCode("Esc") } ]
WorkerBackend ==
    [may_fail |-> TRUE, pages |-> {<< 1, FALSE >>},
     counts |-> {1}, schedule_lens |-> {1}]

WorkerKey == KeyEvent(WorkerKeys, MaxKeyQueue)
WorkerAction == ActionReceived(MaxQueue, MaxRows, MaxErrors)
WorkerTake == WorkerRecv(MaxLog)
WorkerAnswer == WorkerReply(WorkerBackend)

SpecWorkerInit == SystemInit(Secs(3)) /\ Pure
SpecWorkerNext ==
    \/ WorkerKey /\ UNCHANGED <<codec, compose>>
    \/ WorkerAction /\ UNCHANGED <<codec, compose>>
    \/ WorkerTake /\ UNCHANGED <<codec, compose>>
    \/ WorkerAnswer /\ UNCHANGED <<codec, compose>>
SpecWorker == SpecWorkerInit /\ [][SpecWorkerNext]_vars

(***************************************************************************)
(* Cursors: the user moves in the collections while they are reloaded with *)
(* more rows, fewer rows or none.                                          *)
(***************************************************************************)
CursorKeys ==
    [ normal |-> { KeyChar(K_j), KeyChar(K_k), KeyChar(K_G), KeyCtrl(K_d),
                   KeyCtrl(K_u), KeyCtrl(K_r), KeyChar(K_colon) },
      lines |-> { S_sch, S_wf },
      overlay |-> { KeyCode("Esc") } ]
CursorBackend ==
    [may_fail |-> FALSE, pages |-> {<< 2, FALSE >>, << 1, FALSE >>, << 0, FALSE >>},
     counts |-> {1}, schedule_lens |-> {2, 0}]

CursorKey == KeyEvent(CursorKeys, MaxKeyQueue)
CursorAction == ActionReceived(MaxQueue, MaxRows, MaxErrors)
CursorWorker == WorkerRun(CursorBackend)

SpecCursorInit == SystemInit(Secs(3)) /\ Pure
SpecCursorNext ==
    \/ CursorKey /\ UNCHANGED <<codec, compose>>
    \/ CursorAction /\ UNCHANGED <<codec, compose>>
    \/ CursorWorker /\ UNCHANGED <<codec, compose>>
SpecCursor == SpecCursorInit /\ [][SpecCursorNext]_vars

(***************************************************************************)
(* A session of cursor movement over a long and a short page: every        *)
(* navigation key on both collections, reloads that change the row count.  *)
(***************************************************************************)
NavigateKeys ==
    [ normal |-> { KeyChar(K_j), KeyChar(K_k), KeyChar(K_g), KeyChar(K_G),
                   KeyCtrl(K_d), KeyCtrl(K_u), KeyCtrl(K_r), KeyChar(K_colon) },
      lines |-> { S_sch },
      overlay |-> { KeyCode("Esc") } ]
NavigateBackend ==
    [may_fail |-> FALSE, pages |-> {<< 22, FALSE >>, << 0, FALSE >>},
     counts |-> {22}, schedule_lens |-> {2}]

NavigateKey == KeyEvent(NavigateKeys, MaxKeyQueue)
NavigateAction == ActionReceived(MaxQueue, MaxRows, MaxErrors)
NavigateWorker == WorkerRun(NavigateBackend)

SpecNavigateInit == SystemInit(Secs(3)) /\ Pure
SpecNavigateNext ==
    \/ NavigateKey /\ UNCHANGED <<codec, compose>>
    \/ NavigateAction /\ UNCHANGED <<codec, compose>>
    \/ NavigateWorker /\ UNCHANGED <<codec, compose>>
SpecNavigate == SpecNavigateInit /\ [][SpecNavigateNext]_vars

(***************************************************************************)
(* A session of records opened and left while the worker answers: the      *)
(* requests of a Select are followed through the worker for MaxTaken steps. *)
(***************************************************************************)
MaxTaken == 6

OrderKeys ==
    [ normal |-> { KeyCode("Enter"), KeyCode("Esc"), KeyCtrl(K_r) },
      lines |-> { S_sch },
      overlay |-> { KeyCode("Esc") } ]
OrderBackend ==
    [may_fail |-> TRUE, pages |-> {<< 1, FALSE >>},
     counts |-> {1}, schedule_lens |-> {1}]

OrderKey == KeyEvent(OrderKeys, MaxQueue)
OrderAction == ActionReceived(MaxQueue, MaxRows, MaxErrors)
OrderTake == WorkerRecv(MaxTaken)
OrderAnswer == WorkerReply(OrderBackend)

SpecOrderInit == SystemInit(Secs(3)) /\ Pure
SpecOrderNext ==
    \/ OrderKey /\ UNCHANGED <<codec, compose>>
    \/ OrderAction /\ UNCHANGED <<codec, compose>>
    \/ OrderTake /\ UNCHANGED <<codec, compose>>
    \/ OrderAnswer /\ UNCHANGED <<codec, compose>>
SpecOrder == SpecOrderInit /\ [][SpecOrderNext]_vars

(***************************************************************************)
(* A session of two workflows opened one after the other while the worker  *)
(* is still answering for the first: up to MaxInFlight requests and        *)
(* results wait at a time.                                                 *)
(***************************************************************************)
MaxInFlight == 4

StaleKeys ==
    [ normal |-> { KeyCode("Enter"), KeyCode("Esc"), KeyChar(K_j), KeyChar(K_c) },
      lines |-> { S_sch },
      overlay |-> { KeyCode("Esc") } ]
StaleBackend ==
    [may_fail |-> FALSE, pages |-> {<< 2, FALSE >>},
     counts |-> {2}, schedule_lens |-> {1}]

StaleKey == KeyEvent(StaleKeys, MaxInFlight)
StaleAction == ActionReceived(MaxInFlight, MaxRows, MaxErrors)
StaleTake == WorkerRecv(MaxTaken)
StaleAnswer == WorkerReply(StaleBackend)

SpecStaleInit == SystemInit(Secs(3)) /\ Pure
SpecStaleNext ==
    \/ StaleKey /\ UNCHANGED <<codec, compose>>
    \/ StaleAction /\ UNCHANGED <<codec, compose>>
    \/ StaleTake /\ UNCHANGED <<codec, compose>>
    \/ StaleAnswer /\ UNCHANGED <<codec, compose>>
SpecStale == SpecStaleInit /\ [][SpecStaleNext]_vars

(***************************************************************************)
(* A session of operations with and without a selection: operation keys    *)
(* before the rows or the record have loaded, on empty collections, and    *)
(* the reducer called with operations of either kind.                      *)
(***************************************************************************)
SelectionKeys ==
    [ normal |-> { KeyChar(K_c), KeyChar(K_p), KeyChar(K_colon),
                   KeyCode("Enter"), KeyCode("Esc") },
      lines |-> { S_sch },
      overlay |-> { KeyCode("Esc") } ]
SelectionBackend ==
    [may_fail |-> FALSE, pages |-> {<< 1, FALSE >>},
     counts |-> {1}, schedule_lens |-> {2, 0}]

SelectionKey == KeyEvent(SelectionKeys, MaxKeyQueue)
SelectionOperation == OperationEvent({"CancelWorkflow", "PauseSchedule"}, MaxKeyQueue)
SelectionAction == ActionReceived(MaxQueue, MaxRows, MaxErrors)
SelectionWorker == WorkerRun(SelectionBackend)

SpecSelectionInit == SystemInit(Secs(3)) /\ Pure
SpecSelectionNext ==
    \/ SelectionKey /\ UNCHANGED <<codec, compose>>
    \/ SelectionOperation /\ UNCHANGED <<codec, compose>>
    \/ SelectionAction /\ UNCHANGED <<codec, compose>>
    \/ SelectionWorker /\ UNCHANGED <<codec, compose>>
SpecSelection == SpecSelectionInit /\ [][SpecSelectionNext]_vars

(***************************************************************************)
(* A session of schedules paused and unpaused from the list and from the   *)
(* detail view, over an active and a paused schedule.                      *)
(***************************************************************************)
PauseKeys ==
    [ normal |-> { KeyChar(K_p), KeyChar(K_j), KeyChar(K_colon),
                   KeyCode("Enter"), KeyCode("Esc") },
      lines |-> { S_sch },
      overlay |-> { KeyCode("Esc") } ]
PauseBackend ==
    [may_fail |-> FALSE, pages |-> {<< 1, FALSE >>},
     counts |-> {1}, schedule_lens |-> {2}]

PauseKey == KeyEvent(PauseKeys, MaxKeyQueue)
PauseAction == ActionReceived(MaxQueue, MaxRows, MaxErrors)
PauseWorker == WorkerRun(PauseBackend)

SpecPauseInit == SystemInit(Secs(3)) /\ Pure
SpecPauseNext ==
    \/ PauseKey /\ UNCHANGED <<codec, compose>>
    \/ PauseAction /\ UNCHANGED <<codec, compose>>
    \/ PauseWorker /\ UNCHANGED <<codec, compose>>
SpecPause == SpecPauseInit /\ [][SpecPauseNext]_vars

(***************************************************************************)
(* A session of toasts and time: an operation key with nothing selected    *)
(* and a failed call record a toast, the clock ticks once a second for     *)
(* MaxClock seconds, the timer polls and the worker answers.               *)
(***************************************************************************)
MaxClock == 7

ToastKeys ==
    [ normal |-> { KeyChar(K_c), KeyChar(K_j) },
      lines |-> { S_sch },
      overlay |-> { KeyCode("Esc") } ]
ToastBackend ==
    [may_fail |-> TRUE, pages |-> {<< 1, FALSE >>, << 0, FALSE >>},
     counts |-> {1}, schedule_lens |-> {0}]

ToastKey == KeyEvent(ToastKeys, MaxKeyQueue)
ToastTick == TickEvent(MaxQueue, MaxClock)
ToastAction == ActionReceived(MaxQueue, MaxRows, MaxErrors)
ToastWorker == WorkerRun(ToastBackend)

SpecToastInit == SystemInit(Secs(3)) /\ Pure
SpecToastNext ==
    \/ ToastKey /\ UNCHANGED <<codec, compose>>
    \/ ToastTick /\ UNCHANGED <<codec, compose>>
    \/ ToastAction /\ UNCHANGED <<codec, compose>>
    \/ ToastWorker /\ UNCHANGED <<codec, compose>>
SpecToast == SpecToastInit /\ [][SpecToastNext]_vars

(***************************************************************************)
(* A session of text entry: commands and searches typed, erased and        *)
(* submitted on both collections; "H" is the help command in capitals and  *)
(* "x" no command.                                                         *)
(***************************************************************************)
L_help_capital == << 72 >>
L_unknown == << 120 >>

SubmitKeys ==
    [ normal |-> { KeyChar(K_colon), KeyChar(K_slash), KeyCode("Backspace") },
      lines |-> { S_sch, S_wf, L_help_capital, L_unknown, << >> },
      overlay |-> { KeyCode("Esc") } ]
SubmitBackend ==
    [may_fail |-> FALSE, pages |-> {<< 1, FALSE >>},
     counts |-> {1}, schedule_lens |-> {1}]

SubmitKey == KeyEvent(SubmitKeys, MaxKeyQueue)
SubmitAction == ActionReceived(MaxQueue, MaxRows, MaxErrors)
SubmitWorker == WorkerRun(SubmitBackend)

SpecSubmitInit == SystemInit(Secs(3)) /\ Pure
SpecSubmitNext ==
    \/ SubmitKey /\ UNCHANGED <<codec, compose>>
    \/ SubmitAction /\ UNCHANGED <<codec, compose>>
    \/ SubmitWorker /\ UNCHANGED <<codec, compose>>
SpecSubmit == SpecSubmitInit /\ [][SpecSubmitNext]_vars

(***************************************************************************)
(* Scrolling: the user opens a workflow of a collection that has a further *)
(* page, and scrolls the detail view by lines, by pages and to its ends.   *)
(***************************************************************************)
ScrollKeys ==
    [ normal |-> { KeyCode("Enter"), KeyCode("Esc"), KeyChar(K_j), KeyChar(K_k),
                   KeyChar(K_g), KeyChar(K_G), KeyCtrl(K_d), KeyCtrl(K_u) },
      lines |-> { },
      overlay |-> { KeyCode("Esc") } ]
ScrollBackend ==
    [may_fail |-> FALSE, pages |-> {<< 2, TRUE >>}, counts |-> {2},
     schedule_lens |-> {1}]

ScrollKey == KeyEvent(ScrollKeys, MaxKeyQueue)
ScrollAction == ActionReceived(MaxQueue, MaxShown, MaxErrors)
ScrollWorker == WorkerRun(ScrollBackend)

SpecScrollInit == SystemInit(Secs(3)) /\ Pure
SpecScrollNext ==
    \/ ScrollKey /\ UNCHANGED <<codec, compose>>
    \/ ScrollAction /\ UNCHANGED <<codec, compose>>
    \/ ScrollWorker /\ UNCHANGED <<codec, compose>>
SpecScroll == SpecScrollInit /\ [][SpecScrollNext]_vars

(***************************************************************************)
(* Look-ahead while polling: the user moves down a first page that has a   *)
(* further page while the timer reloads the collection.                    *)
(***************************************************************************)
AheadKeys ==
    [ normal |-> { KeyChar(K_j) },
      lines |-> { },
      overlay |-> { KeyCode("Esc") } ]
AheadBackend ==
    [may_fail |-> FALSE, pages |-> {<< 2, TRUE >>}, counts |-> {2},
     schedule_lens |-> {1}]

AheadKey == KeyEvent(AheadKeys, MaxQueue)
AheadTick == TickEvent(MaxQueue, MaxTime)
AheadAction == ActionReceived(MaxQueue, MaxRows, MaxErrors)
AheadWorker == WorkerRun(AheadBackend)

SpecAheadInit == SystemInit(Secs(3)) /\ Pure
SpecAheadNext ==
    \/ AheadKey /\ UNCHANGED <<codec, compose>>
    \/ AheadTick /\ UNCHANGED <<codec, compose>>
    \/ AheadAction /\ UNCHANGED <<codec, compose>>
    \/ AheadWorker /\ UNCHANGED <<codec, compose>>
SpecAhead == SpecAheadInit /\ [][SpecAheadNext]_vars

(***************************************************************************)
(* Polling: the timer polls the workflow list and the detail of a workflow *)
(* the user has opened, over a backend that may fail any call and be slow  *)
(* to answer.                                                              *)
(***************************************************************************)
PollKeys ==
    [ normal |-> { KeyCode("Enter") },
      lines |-> { },
      overlay |-> { KeyCode("Esc") } ]
PollBackend ==
    [may_fail |-> TRUE, pages |-> {<< 1, FALSE >>}, counts |-> {1},
     schedule_lens |-> {1}]

PollKey == KeyEvent(PollKeys, MaxInFlight)
PollTick == TickEvent(MaxInFlight, MaxClock)
PollAction == ActionReceived(MaxInFlight, MaxRows, MaxErrors)
PollWorker == WorkerRun(PollBackend)

SpecPollInit == SystemInit(Secs(3)) /\ Pure
SpecPollNext ==
    \/ PollKey /\ UNCHANGED <<codec, compose>>
    \/ PollTick /\ UNCHANGED <<codec, compose>>
    \/ PollAction /\ UNCHANGED <<codec, compose>>
    \/ PollWorker /\ UNCHANGED <<codec, compose>>
SpecPoll == SpecPollInit /\ [][SpecPollNext]_vars

(***************************************************************************)
(* Fair scheduling: the user opens records, leaves them, reloads and may   *)
(* quit, until MaxSent requests have been sent; the main loop receives an *)
(* Action that waits, the worker receives a request that waits, and a      *)
(* backend call returns.                                                   *)
(***************************************************************************)
MaxSent == 5

LiveKeys ==
    [ normal |-> { KeyCode("Enter"), KeyCode("Esc"), KeyCtrl(K_r), KeyChar(K_q) },
      lines |-> { },
      overlay |-> { KeyCode("Esc") } ]
LiveBackend ==
    [may_fail |-> TRUE, pages |-> {<< 1, FALSE >>},
     counts |-> {1}, schedule_lens |-> {1}]

LiveKey ==
    /\ KeyEvent(LiveKeys, MaxQueue)
    /\ Len(worker.taken) + Len(requests') <= MaxSent
    /\ UNCHANGED <<codec, compose>>
LiveAction ==
    /\ ActionReceived(MaxQueue, MaxRows, MaxSent)
    /\ UNCHANGED <<codec, compose>>
LiveTake == WorkerRecv(MaxSent) /\ UNCHANGED <<codec, compose>>
LiveAnswer == WorkerReply(LiveBackend) /\ UNCHANGED <<codec, compose>>

SpecLiveInit == SystemInit(Secs(3)) /\ Pure
SpecLiveNext ==
    \/ LiveKey
    \/ LiveAction
    \/ LiveTake
    \/ LiveAnswer
\* tokio::select! picks at random among the branches that are ready, so an
\* Action that waits is received; the worker task is scheduled, and a backend
\* call returns
SpecLive ==
    /\ SpecLiveInit
    /\ [][SpecLiveNext]_vars
    /\ WF_vars(LiveAction)
    /\ WF_vars(LiveTake)
    /\ WF_vars(LiveAnswer)

(***************************************************************************)
(* A confirmation left open: the user asks to cancel a workflow and waits  *)
(* while the timer polls a backend that may fail, or answer with a list    *)
(* that no longer has the workflow.                                        *)
(***************************************************************************)
MaxFailed == 1

FrozenKeys ==
    [ normal |-> { KeyChar(K_c) },
      lines |-> { },
      overlay |-> { KeyChar(K_y) } ]
FrozenBackend ==
    [may_fail |-> TRUE, pages |-> {<< 1, FALSE >>, << 0, FALSE >>},
     counts |-> {1}, schedule_lens |-> {1}]

FrozenKey == KeyEvent(FrozenKeys, MaxKeyQueue)
FrozenTick == TickEvent(MaxKeyQueue, MaxTime)
FrozenAction == ActionReceived(MaxQueue, MaxRows, MaxFailed)
FrozenWorker == WorkerRun(FrozenBackend)

SpecFrozenInit == SystemInit(Secs(3)) /\ Pure
SpecFrozenNext ==
    \/ FrozenKey /\ UNCHANGED <<codec, compose>>
    \/ FrozenTick /\ UNCHANGED <<codec, compose>>
    \/ FrozenAction /\ UNCHANGED <<codec, compose>>
    \/ FrozenWorker /\ UNCHANGED <<codec, compose>>
SpecFrozen == SpecFrozenInit /\ [][SpecFrozenNext]_vars

(***************************************************************************)
(* Jumping to the bottom of a first page of one row or of six, each with a *)
(* further page.                                                           *)
(***************************************************************************)
BottomKeys ==
    [ normal |-> { KeyChar(K_G), KeyChar(K_j) },
      lines |-> { },
      overlay |-> { KeyCode("Esc") } ]
BottomBackend ==
    [may_fail |-> FALSE, pages |-> {<< 1, TRUE >>, << 6, TRUE >>}, counts |-> {6},
     schedule_lens |-> {1}]

BottomKey == KeyEvent(BottomKeys, MaxQueue)
BottomAction == ActionReceived(MaxQueue, MaxShown, MaxErrors)
BottomWorker == WorkerRun(BottomBackend)

SpecBottomInit == SystemInit(Secs(3)) /\ Pure
SpecBottomNext ==
    \/ BottomKey /\ UNCHANGED <<codec, compose>>
    \/ BottomAction /\ UNCHANGED <<codec, compose>>
    \/ BottomWorker /\ UNCHANGED <<codec, compose>>
SpecBottom == SpecBottomInit /\ [][SpecBottomNext]_vars

(***************************************************************************)
(* The location of a state applied to that state: the user browses lists,  *)
(* records, tabs and searches, and at any time the location of the state   *)
(* drawn is computed and applied to it.                                    *)
(***************************************************************************)
RestoreKeys ==
    [ normal |-> { KeyCode("Enter"), KeyCode("Esc"), KeyCode("Tab"),
                   KeyChar(K_colon), KeyChar(K_slash) },
      lines |-> { S_sch },
      overlay |-> { KeyCode("Esc") } ]

\* apply_location(location()) on the state drawn; the outcome is set aside
Restore ==
    /\ Running
    /\ codec = CodecIdle
    /\ LET pre == render(app)
       IN codec' = [phase |-> "restored", from |-> pre,
                    to |-> apply_location(pre, location(pre), now).app]
    /\ UNCHANGED <<sys, compose>>

RestoreKey == codec = CodecIdle /\ KeyEvent(RestoreKeys, MaxKeyQueue)
RestoreAction == codec = CodecIdle /\ ActionReceived(MaxQueue, MaxRows, MaxErrors)
RestoreWorker == codec = CodecIdle /\ WorkerRun(BrowseBackend)

SpecRestoreInit == SystemInit(Secs(3)) /\ Pure
SpecRestoreNext ==
    \/ RestoreKey /\ UNCHANGED <<codec, compose>>
    \/ RestoreAction /\ UNCHANGED <<codec, compose>>
    \/ RestoreWorker /\ UNCHANGED <<codec, compose>>
    \/ Restore
SpecRestore == SpecRestoreInit /\ [][SpecRestoreNext]_vars

(***************************************************************************)
(* Modes and overlays together: the user starts commands, searches and the *)
(* g chord, opens the help by key and by command, the namespace picker and *)
(* a confirmation, and presses the keys of each on the others.             *)
(***************************************************************************)
ModeKeys ==
    [ normal |-> { KeyChar(K_question), KeyChar(K_colon), KeyChar(K_slash),
                   KeyChar(K_g), KeyChar(K_c), KeyCode("Enter"), KeyCode("Esc") },
      lines |-> { L_help_capital, S_ns },
      overlay |-> { KeyCode("Esc"), KeyChar(K_colon), KeyChar(K_slash),
                    KeyChar(K_g), KeyChar(K_question), KeyChar(K_y) } ]

ModeKey == KeyEvent(ModeKeys, MaxKeyQueue)
ModeAction == ActionReceived(MaxQueue, MaxRows, MaxErrors)
ModeWorker == WorkerRun(BrowseBackend)

SpecModesInit == SystemInit(Secs(3)) /\ Pure
SpecModesNext ==
    \/ ModeKey /\ UNCHANGED <<codec, compose>>
    \/ ModeAction /\ UNCHANGED <<codec, compose>>
    \/ ModeWorker /\ UNCHANGED <<codec, compose>>
SpecModes == SpecModesInit /\ [][SpecModesNext]_vars

(***************************************************************************)
(* Answers arriving in every context: the user opens workflows and         *)
(* schedules, types commands and cancels a workflow, while a backend that  *)
(* may fail answers.                                                       *)
(***************************************************************************)
FocusKeys ==
    [ normal |-> { KeyCode("Enter"), KeyChar(K_colon), KeyChar(K_c) },
      lines |-> { S_sch },
      overlay |-> { KeyChar(K_y) } ]
FocusBackend ==
    [may_fail |-> TRUE, pages |-> {<< 1, FALSE >>}, counts |-> {1},
     schedule_lens |-> {1}]

FocusKey == KeyEvent(FocusKeys, MaxKeyQueue)
FocusAction == ActionReceived(MaxQueue, MaxRows, MaxFailed)
FocusWorker == WorkerRun(FocusBackend)

SpecFocusInit == SystemInit(Secs(3)) /\ Pure
SpecFocusNext ==
    \/ FocusKey /\ UNCHANGED <<codec, compose>>
    \/ FocusAction /\ UNCHANGED <<codec, compose>>
    \/ FocusWorker /\ UNCHANGED <<codec, compose>>
SpecFocus == SpecFocusInit /\ [][SpecFocusNext]_vars

(***************************************************************************)
(* Vocabulary of the claims about the running program.                     *)
(***************************************************************************)
\* the state the event of a step is handled on: the loop draws first
Drawn == render(app)

\* the requests a step of the loop sends
Sent ==
    IF Len(requests') >= Len(requests)
    THEN SubSeq(requests', Len(requests) + 1, Len(requests'))
    ELSE << >>

\* the operations flagged requires_confirm
ConfirmRequired ==
    { op \in OperationId :
        \E k \in KindId : LET sp == operation_spec(k, op)
                          IN IsSome(sp) /\ sp[1].requires_confirm }

KeyHandled == event'.tag = "Key"
Confirms(key) == key.code = "Enter" \/ IsChar(key, K_y)
Cancels(key) == key.code = "Esc" \/ IsChar(key, K_n)

\* the real Effect of the operation a Confirm overlay stores, and its request
StoredEffect(confirm) ==
    IF confirm.kind = "WorkflowExecution"
    THEN [tag |-> confirm.op, id |-> confirm.target.id,
          run_id |-> confirm.target.run_id]
    ELSE [tag |-> confirm.op, id |-> confirm.target.id]
StoredRequest(confirm, namespace) ==
    IF confirm.kind = "WorkflowExecution"
    THEN [tag |-> confirm.op, namespace |-> namespace,
          workflow_id |-> confirm.target.id, run_id |-> confirm.target.run_id]
    ELSE [tag |-> confirm.op, namespace |-> namespace,
          schedule_id |-> confirm.target.id]

\* the row an operation of the shown view acts on
SelectedTarget(s) ==
    IF current_kind_id(s) = "WorkflowExecution"
    THEN LET wf == selected_workflow_summary(s)
         IN IF IsSome(wf)
            THEN Some(TargetWorkflow(wf[1].workflow_id, Some(wf[1].run_id)))
            ELSE None
    ELSE LET sch == selected_schedule_summary(s)
         IN IF IsSome(sch) THEN Some(TargetSchedule(sch[1].schedule_id)) ELSE None

\* the step handles a key that reaches the reducer as RunOperation(op) for a
\* confirm-required operation of the shown kind
RunsConfirmRequired(op) ==
    /\ KeyHandled
    /\ key_action(Drawn, event'.key[1]) = Some(ActArg("RunOperation", op))
    /\ op \in ConfirmRequired
    /\ IsSome(operation_spec(current_kind_id(Drawn), op))

(***************************************************************************)
(* C1.  Confirmation gating: the Effect of an operation flagged            *)
(* requires_confirm (cancel workflow, terminate workflow, trigger          *)
(* schedule, delete schedule) is returned, and its request sent to the     *)
(* worker, only by the step that handles y or Enter on the Confirm overlay *)
(* opened for that operation and target; the RunOperation step only opens  *)
(* the Confirm overlay and returns no Effect; n or Esc clears the overlay  *)
(* with no Effect.                                                         *)
(***************************************************************************)
C1_Step ==
    LET confirmed ==
            /\ KeyHandled
            /\ Drawn.overlay.tag = "Confirm"
            /\ Confirms(event'.key[1])
    IN /\ ConfirmRequired = {"CancelWorkflow", "TerminateWorkflow",
                             "TriggerSchedule", "DeleteSchedule"}
       /\ \A i \in 1..Len(effects') :
             effects'[i].tag \in ConfirmRequired
                => confirmed /\ effects'[i] = StoredEffect(Drawn.overlay)
       /\ \A i \in 1..Len(Sent) :
             Sent[i].tag \in ConfirmRequired
                => confirmed /\ Sent[i] = StoredRequest(Drawn.overlay, Drawn.namespace)
       /\ \A op \in OperationId :
             RunsConfirmRequired(op)
                => /\ effects' = << >>
                   /\ Sent = << >>
                   /\ IF IsSome(SelectedTarget(Drawn))
                      THEN app'.overlay = OverlayConfirm(current_kind_id(Drawn), op,
                                                         SelectedTarget(Drawn)[1])
                      ELSE app'.overlay = OverlayNone
       /\ (app'.overlay.tag = "Confirm" /\ app'.overlay # app.overlay)
             => RunsConfirmRequired(app'.overlay.op)
       /\ (KeyHandled /\ Drawn.overlay.tag = "Confirm" /\ Cancels(event'.key[1]))
             => /\ app'.overlay = OverlayNone
                /\ effects' = << >>
                /\ Sent = << >>

C1_ConfirmationGating == [][C1_Step]_vars

\* the user pressed `t` on a workflow row: the overlay is open for the
\* termination of that row and nothing was returned or sent
C1_Witness ==
    /\ event.tag = "Key"
    /\ event.key = Some(KeyChar(K_t))
    /\ app.overlay.tag = "Confirm"
    /\ app.overlay.op = "TerminateWorkflow"
    /\ app.overlay.target = TargetWorkflow(WfRow(1).workflow_id, Some(WfRow(1).run_id))
    /\ effects = << >>
    /\ \A i \in 1..Len(requests) : requests[i].tag \notin ConfirmRequired

(***************************************************************************)
(* C2.  Confirm delivers the operation: with the Confirm overlay open, y   *)
(* or Enter closes the overlay and sends the worker exactly one request,   *)
(* the one of the (kind, operation, target) stored in the overlay; n or    *)
(* Esc closes the overlay and sends nothing; any other key leaves the      *)
(* overlay open and sends nothing.                                         *)
(***************************************************************************)
C2_Step ==
    (KeyHandled /\ Drawn.overlay.tag = "Confirm")
       => IF Confirms(event'.key[1])
          THEN /\ app'.overlay = OverlayNone
               /\ effects' = << StoredEffect(Drawn.overlay) >>
               /\ Sent = << StoredRequest(Drawn.overlay, Drawn.namespace) >>
          ELSE IF Cancels(event'.key[1])
          THEN /\ app'.overlay = OverlayNone
               /\ effects' = << >>
               /\ requests' = requests
          ELSE /\ app'.overlay = Drawn.overlay
               /\ effects' = << >>
               /\ requests' = requests

C2_ConfirmDelivers == [][C2_Step]_vars

\* the user answered `y` to the deletion of a schedule: the overlay is closed
\* and the DeleteSchedule request of that schedule is the last one sent
C2_Witness ==
    /\ event.tag = "Key"
    /\ event.key = Some(KeyChar(K_y))
    /\ app.overlay = OverlayNone
    /\ effects = << EffSch("DeleteSchedule", SchRow(1).schedule_id) >>
    /\ requests # << >>
    /\ requests[Len(requests)] =
          [tag |-> "DeleteSchedule", namespace |-> S_default,
           schedule_id |-> SchRow(1).schedule_id]

(***************************************************************************)
(* C3.  Backoff formula: starting from base interval B and error_count 0,  *)
(* after N >= 1 Error actions in a row the running program has             *)
(* error_count = N and polling_interval = min(B * 2^min(N,5), 60 s).       *)
(***************************************************************************)
\* min(B * 2^k, 60) in the integers, B a u64 number of seconds
BackoffOf(base, k) ==
    IF base.hi > 0 THEN Secs(60) ELSE Secs(Min(base.lo * 2 ^ k, 60))

C3_BackoffFormula ==
    (~crashed /\ event.errors.n >= 1 /\ event.errors.from = 0)
       => /\ app.error_count = event.errors.n
          /\ app.polling_interval =
                BackoffOf(app.base_polling_interval, Min(event.errors.n, 5))

(***************************************************************************)
(* C4.  Backoff reset on success: every data-loaded Action (workflows,     *)
(* more workflows, schedules, workflow detail, schedule detail, history,   *)
(* namespaces, workflow count, task-queue detail) leaves error_count = 0   *)
(* and polling_interval = base_polling_interval.                           *)
(***************************************************************************)
C4_Step ==
    (event'.tag = "Action" /\ event'.action \in DataLoaded /\ ~crashed')
       => /\ app'.error_count = 0
          /\ app'.polling_interval = app'.base_polling_interval

C4_ResetOnSuccess == [][C4_Step]_vars

(***************************************************************************)
(* C5.  Polling-interval invariant: in every reachable state, for every    *)
(* --poll-interval, polling_interval >= base_polling_interval; and from    *)
(* one Error action to the next of a run of Error actions the              *)
(* polling_interval does not decrease.                                     *)
(***************************************************************************)
u64_ge(x, y) == x.hi > y.hi \/ (x.hi = y.hi /\ x.lo >= y.lo)

C5_AtLeastBase == u64_ge(app.polling_interval, app.base_polling_interval)
C5_Step ==
    (event'.tag = "Action" /\ event'.action = "Error" /\ event'.errors.n >= 2
                           /\ ~crashed')
       => u64_ge(app'.polling_interval, app.polling_interval)

C5_PollingInterval == [](~crashed => C5_AtLeastBase) /\ [][C5_Step]_vars

(***************************************************************************)
(* C6.  At most one page load: while loading_more is true no step of the   *)
(* reducer returns a LoadMoreWorkflows Effect, and none is sent; a second  *)
(* downward move made before the first result is processed returns none.   *)
(***************************************************************************)
LoadsMore(seq) == { i \in 1..Len(seq) : seq[i].tag = "LoadMoreWorkflows" }

C6_Step ==
    app.loading_more => LoadsMore(effects') = { } /\ LoadsMore(Sent) = { }

C6_AtMostOneLoad == [][C6_Step]_vars

\* the second downward move in a row near the end of the rows: the first
\* sent the LoadMoreWorkflows request still in the channel, this one nothing
C6_Witness ==
    /\ event.tag = "Key"
    /\ event.key = Some(KeyChar(K_j))
    /\ app.view = Collection("WorkflowExecution")
    /\ app.loading_more
    /\ app.next_page_token # << >>
    /\ IsSome(app.workflow_table_state)
    /\ app.workflow_table_state[1] + 5 >= Len(app.workflows.data)
    /\ effects = << >>
    /\ Cardinality(LoadsMore(requests)) = 1

(***************************************************************************)
(* C7.  Pagination look-ahead rule.  As stated: on NavigateDown or         *)
(* PageDown in a collection view the reducer sets loading_more and returns *)
(* exactly one LoadMoreWorkflows Effect if and only if loading_more was    *)
(* false, the continuation token is non-empty and the cursor after the     *)
(* move is within 5 rows of the end of the loaded collection; otherwise it *)
(* returns no LoadMoreWorkflows and leaves loading_more unchanged.         *)
(* As the code has it: the rule is the one of the workflow collection      *)
(* only; in the schedule collection a move never loads more.               *)
(***************************************************************************)
\* the step handles a key that reaches the reducer as NavigateDown or PageDown
\* in a collection view
MovesDown ==
    /\ KeyHandled
    /\ ~crashed'
    /\ Drawn.view.tag = "Collection"
    /\ key_action(Drawn, event'.key[1]) \in { Some(Act("NavigateDown")),
                                              Some(Act("PageDown")) }

\* the cursor is set and within 5 rows of the end of the loaded rows
NearEnd(cursor, rows) ==
    /\ IsSome(data(rows))
    /\ IsSome(cursor)
    /\ cursor[1] + 5 >= Len(rows.data)

LoadsMoreOnce ==
    /\ app'.loading_more
    /\ effects' = << Eff("LoadMoreWorkflows") >>
    /\ Len(Sent) = 1
    /\ Sent[1].tag = "LoadMoreWorkflows"
    /\ Sent[1].next_page_token = Drawn.next_page_token
LoadsNoMore ==
    /\ app'.loading_more = Drawn.loading_more
    /\ LoadsMore(effects') = { }
    /\ LoadsMore(Sent) = { }

C7_OriginalStep ==
    MovesDown
       => IF /\ ~Drawn.loading_more
             /\ Drawn.next_page_token # << >>
             /\ IF Drawn.view.kind = "WorkflowExecution"
                THEN NearEnd(app'.workflow_table_state, Drawn.workflows)
                ELSE NearEnd(app'.schedule_table_state, Drawn.schedules)
          THEN LoadsMoreOnce
          ELSE LoadsNoMore

C7_Original == [][C7_OriginalStep]_vars

C7_Step ==
    MovesDown
       => IF /\ Drawn.view = Collection("WorkflowExecution")
             /\ ~Drawn.loading_more
             /\ Drawn.next_page_token # << >>
             /\ NearEnd(app'.workflow_table_state, Drawn.workflows)
          THEN LoadsMoreOnce
          ELSE LoadsNoMore

C7_LookAhead == [][C7_Step]_vars

\* 20 loaded rows, the token set, the cursor moved down from 14 to 15: the
\* move returned LoadMoreWorkflows and set loading_more
C7_Witness ==
    /\ event.tag = "Key"
    /\ event.key = Some(KeyChar(K_j))
    /\ app.view = Collection("WorkflowExecution")
    /\ Len(app.workflows.data) = 20
    /\ app.workflow_table_state = Some(15)
    /\ app.next_page_token # << >>
    /\ app.loading_more
    /\ effects = << Eff("LoadMoreWorkflows") >>

(***************************************************************************)
(* C8.  Load-more results.  As stated: processing MoreWorkflowsLoaded(page,*)
(* token) keeps the loaded rows, in order, and appends the page's rows     *)
(* (new length = old length + page length), replaces the continuation      *)
(* token with the returned one, clears loading_more and leaves the row     *)
(* cursor unchanged.                                                       *)
(* As the code has it: the page is appended when the workflow collection   *)
(* is loaded; when it is not (the namespace was switched while the page    *)
(* was in flight) the page is dropped and the collection stays as it is;   *)
(* the token, loading_more and the cursor are as stated in both cases.     *)
(***************************************************************************)
MoreLoaded ==
    /\ event'.tag = "Action"
    /\ event'.action = "MoreWorkflowsLoaded"
    /\ ~crashed'

\* the rows a collection shows
RowsOf(rows) == IF IsSome(data(rows)) THEN rows.data ELSE << >>

PagingStateUpdated ==
    /\ app'.next_page_token = Head(results).token
    /\ ~app'.loading_more
    /\ app'.workflow_table_state = Drawn.workflow_table_state

C8_OriginalStep ==
    MoreLoaded
       => /\ RowsOf(app'.workflows) = RowsOf(Drawn.workflows) \o Head(results).rows
          /\ Len(RowsOf(app'.workflows))
                = Len(RowsOf(Drawn.workflows)) + Len(Head(results).rows)
          /\ PagingStateUpdated

C8_Original == [][C8_OriginalStep]_vars

C8_Step ==
    MoreLoaded
       => /\ IF IsSome(data(Drawn.workflows))
             THEN /\ app'.workflows = Loaded(Drawn.workflows.data \o Head(results).rows)
                  /\ Len(app'.workflows.data)
                        = Len(Drawn.workflows.data) + Len(Head(results).rows)
             ELSE app'.workflows = Drawn.workflows
          /\ PagingStateUpdated

C8_Append == [][C8_Step]_vars

\* a second page has been appended to the first: 22 rows, numbered in order,
\* the cursor where it was when the page was asked for
C8_Witness ==
    /\ event.tag = "Action"
    /\ event.action = "MoreWorkflowsLoaded"
    /\ app.workflows = Loaded(WfRows(0, 22))
    /\ ~app.loading_more
    /\ app.workflow_table_state = Some(15)

(***************************************************************************)
(* C9.  URI round trip: for every Location (any namespace, a non-empty     *)
(* stack of route segments of the six shapes, optional fields present or   *)
(* absent), parse_deep_link(format_deep_link(location)) = Ok(location).    *)
(***************************************************************************)
C9_RoundTrip ==
    codec.phase = "parsed" => codec.result = Ok(codec.location)

(***************************************************************************)
(* C10.  Query composition.                                                *)
(***************************************************************************)
RECURSIVE Escaped(_)
Escaped(s) ==
    IF s = << >> THEN << >>
    ELSE (IF s[1] = 39 THEN << 92, 39 >> ELSE << s[1] >>) \o Escaped(Tail(s))

IsBlank(f) == \A i \in 1..Len(f) : f[i] = 32

\* f without its leading and trailing spaces, for a non-blank f
Core(f) ==
    LET solid == { i \in 1..Len(f) : f[i] # 32 }
        first == CHOOSE i \in solid : \A j \in solid : i <= j
        last == CHOOSE i \in solid : \A j \in solid : i >= j
    IN SubSeq(f, first, last)

\* C10 as stated: the field is ScheduledBy, and a supplied filter F is
\* always and-ed on, as it is
C10_Original ==
    compose.phase = "done" =>
        LET base == S_ScheduledBy \o Escaped(compose.schedule_id) \o << 39 >>
        IN compose.out =
            IF compose.extra = None THEN base
            ELSE << 40 >> \o base \o S_and \o compose.extra[1] \o << 41 >>

\* C10 as amended: the composed filter is
\* TemporalScheduledById = '<S with single quotes escaped>' when F is absent
\* or blank, and (TemporalScheduledById = '<S escaped>') AND (<F trimmed>)
\* otherwise.
C10_Composed ==
    compose.phase = "done" =>
        LET base == S_TemporalScheduledById \o Escaped(compose.schedule_id)
                    \o << 39 >>
        IN compose.out =
            IF compose.extra = None \/ IsBlank(compose.extra[1]) THEN base
            ELSE << 40 >> \o base \o S_and \o Core(compose.extra[1]) \o << 41 >>

\* a run with a quote in the schedule id and a filter with a space to trim
C10_Witness ==
    /\ compose.phase = "done"
    /\ compose.schedule_id = << 97, 39 >>
    /\ compose.extra = Some(<< 32, 97 >>)
    /\ compose.out = << 40 >> \o S_TemporalScheduledById \o << 97, 92, 39, 39 >>
                     \o S_and \o << 97, 41 >>


(***************************************************************************)
(* C11.  Applying a schedule-to-workflows Location (schedule id S, user    *)
(* filter F) in any state switches the view to the workflow collection,    *)
(* stores as the workflow kind's search query exactly                      *)
(* (TemporalScheduledById = 'S') AND (F), and returns Effects that include *)
(* both LoadWorkflows and LoadWorkflowCount.                               *)
(* As the code has it: the stored query is the composed filter of C10: S   *)
(* with its single quotes escaped, F trimmed, and the bare                 *)
(* TemporalScheduledById = 'S' when F is absent or blank.                  *)
(***************************************************************************)
\* the links of the session: the line typed, the schedule id and the filter it
\* carries once decoded
ScheduleLinks ==
    { [line |-> L_open(UriScheduleWorkflows(S_default, << 97 >>, Some(<< 97 >>))),
       schedule_id |-> << 97 >>, filter |-> Some(<< 97 >>)],
      [line |-> L_open(UriScheduleWorkflows(S_default, << C_quote >>,
                                            Some(<< C_plus, 97 >>))),
       schedule_id |-> << C_quote >>, filter |-> Some(<< C_space, 97 >>)],
      [line |-> L_open(UriScheduleWorkflows(S_default, << 97 >>,
                                            Some(<< C_plus >>))),
       schedule_id |-> << 97 >>, filter |-> Some(<< C_space >>)],
      [line |-> L_open(UriScheduleWorkflows(S_default, << 97 >>, None)),
       schedule_id |-> << 97 >>, filter |-> None] }

\* the step submits the command line `line`
Submits(line) ==
    /\ KeyHandled
    /\ event'.key[1].code = "Enter"
    /\ Drawn.overlay = OverlayNone
    /\ Drawn.input_mode = "Command"
    /\ Drawn.input_buffer = line

HasEffect(tag) == \E i \in 1..Len(effects') : effects'[i].tag = tag

ShowsScheduleWorkflows(query) ==
    /\ app'.view = Collection("WorkflowExecution")
    /\ app'.search_queries["WorkflowExecution"] = Some(query)
    /\ HasEffect("LoadWorkflows")
    /\ HasEffect("LoadWorkflowCount")

C11_OriginalStep ==
    \A l \in ScheduleLinks :
        (Submits(l.line) /\ IsSome(l.filter))
           => ShowsScheduleWorkflows(
                 << C_lparen >> \o S_TemporalScheduledById \o l.schedule_id
                    \o << C_quote >> \o S_and \o l.filter[1] \o << C_rparen >>)

C11_Original == [][C11_OriginalStep]_vars

C11_Step ==
    \A l \in ScheduleLinks :
        Submits(l.line)
           => LET base == S_TemporalScheduledById \o Escaped(l.schedule_id)
                          \o << C_quote >>
              IN ShowsScheduleWorkflows(
                    IF l.filter = None \/ IsBlank(l.filter[1]) THEN base
                    ELSE << C_lparen >> \o base \o S_and \o Core(l.filter[1])
                            \o << C_rparen >>)

C11_ScheduleWorkflows == [][C11_Step]_vars

\* the link of schedule ' with filter ` a` has been opened: the quote is
\* escaped and the filter trimmed
C11_Witness ==
    /\ event.tag = "Key"
    /\ app.view = Collection("WorkflowExecution")
    /\ app.active_tab = "Workflows"
    /\ app.search_queries["WorkflowExecution"]
          = Some(<< C_lparen >> \o S_TemporalScheduledById
                 \o << C_backslash, C_quote, C_quote >> \o S_and \o << 97 >>
                 \o << C_rparen >>)
    /\ effects = << Eff("LoadWorkflows"), Eff("LoadWorkflowCount") >>
    /\ requests # << >>


(***************************************************************************)
(* C12.  Tab wraparound: in the detail view of a kind with T > 0 tabs      *)
(* (workflow executions, T = 5) NextTab moves from tab i to tab            *)
(* (i + 1) mod T, so that T consecutive NextTab actions from tab 0 return  *)
(* to tab 0; the tab index is always in [0, T-1]; PrevTab from tab 0 goes  *)
(* to tab T-1 and from tab i > 0 to tab i-1.  In the detail view of a kind *)
(* with T = 0 tabs (schedules) NextTab and PrevTab change nothing (a toast *)
(* may only expire), emit no Effect and never fault.                       *)
(***************************************************************************)
KeyGives(action) ==
    /\ KeyHandled
    /\ key_action(Drawn, event'.key[1]) = Some(action)

\* the state left as drawn, but for a toast that has expired
Untouched ==
    /\ [app' EXCEPT !.last_error = None] = [Drawn EXCEPT !.last_error = None]
    /\ app'.last_error \in {Drawn.last_error, None}

C12_InRange ==
    /\ detail_tab_count("WorkflowExecution") = 5
    /\ detail_tab_count("Schedule") = 0
    /\ app.workflow_detail_tab \in 0..4

C12_Step ==
    /\ (Drawn.view = Detail("WorkflowExecution") /\ KeyGives(Act("NextTab")))
          => /\ app'.workflow_detail_tab = (Drawn.workflow_detail_tab + 1) % 5
             /\ ~crashed'
    /\ (Drawn.view = Detail("WorkflowExecution") /\ KeyGives(Act("PrevTab")))
          => /\ app'.workflow_detail_tab =
                   IF Drawn.workflow_detail_tab = 0 THEN 4
                   ELSE Drawn.workflow_detail_tab - 1
             /\ ~crashed'
    /\ (Drawn.view = Detail("Schedule")
          /\ (KeyGives(Act("NextTab")) \/ KeyGives(Act("PrevTab"))))
          => /\ Untouched
             /\ effects' = << >>
             /\ requests' = requests
             /\ ~crashed'

C12_TabWraparound == [](~crashed => C12_InRange) /\ [][C12_Step]_vars

\* Tab has brought the workflow detail back to tab 0: in this view only
\* NextTab and PrevTab follow a Tab or BackTab key, and both change the tab
C12_Witness ==
    /\ event.tag = "Key"
    /\ event.key = Some(KeyCode("Tab"))
    /\ app.view = Detail("WorkflowExecution")
    /\ app.workflow_detail_tab = 0
    /\ IsSome(app.selected_workflow)

(***************************************************************************)
(* C13  The worker is serial and first-in first-out.                       *)
(***************************************************************************)
\* the Actions of the answers from the k-th on
AnswersFrom(k) ==
    [i \in 1..(Len(worker.answered) - k) |-> worker.answered[k + i].action]

\* the worker's log is in step: the i-th answer answers the i-th request
\* taken, the i-th backend call is made for it, and the results queue holds
\* the answers the loop has not received yet, oldest first
C13_InOrder ==
    /\ Len(worker.calls) <= 1
    /\ Len(worker.answered) + Len(worker.calls) = Len(worker.taken)
    /\ Len(worker.called) = Len(worker.taken)
    /\ \A i \in 1..Len(worker.called) : worker.called[i].request = worker.taken[i]
    /\ \A i \in 1..Len(worker.answered) :
          worker.answered[i].request = worker.taken[i]
    /\ worker.calls # << >> => worker.calls[1] = worker.taken[Len(worker.taken)]
    /\ \E k \in 0..Len(worker.answered) : results = AnswersFrom(k)

\* a step of the worker takes the request enqueued first and leaves the others
\* in their order; a step of the loop enqueues behind the requests waiting
C13_Step ==
    /\ worker'.taken # worker.taken =>
          /\ requests # << >>
          /\ worker'.taken = Append(worker.taken, Head(requests))
          /\ requests' = Tail(requests)
    /\ worker'.taken = worker.taken =>
          /\ Len(requests') >= Len(requests)
          /\ SubSeq(requests', 1, Len(requests)) = requests

\* C13: the worker handles the requests one at a time in the order they were
\* enqueued: no two backend calls are ever in flight, and the i-th Action
\* written to the results queue answers the i-th request
C13_WorkerFifo == []C13_InOrder /\ [][C13_Step]_vars

\* two requests of different kinds are answered, a third is being called and a
\* fourth waits in the queue
C13_Witness ==
    /\ Len(worker.answered) >= 2
    /\ worker.answered[1].request.tag # worker.answered[2].request.tag
    /\ worker.calls # << >>
    /\ requests # << >>
    /\ results # << >>

(***************************************************************************)
(* C14  One request, one backend call, one Action.                         *)
(***************************************************************************)
\* the requests that read, with the typed Action of each
LoadedFor ==
    [ LoadWorkflows |-> "WorkflowsLoaded",
      LoadMoreWorkflows |-> "MoreWorkflowsLoaded",
      LoadWorkflowDetail |-> "WorkflowDetailLoaded",
      LoadHistory |-> "HistoryLoaded",
      LoadNamespaces |-> "NamespacesLoaded",
      LoadWorkflowCount |-> "WorkflowCountLoaded",
      LoadSchedules |-> "SchedulesLoaded",
      LoadScheduleDetail |-> "ScheduleDetailLoaded",
      DescribeTaskQueue |-> "TaskQueueDetailLoaded" ]

\* the requests that change a record
Mutating ==
    {"CancelWorkflow", "TerminateWorkflow", "PauseSchedule", "TriggerSchedule",
     "DeleteSchedule", "SignalWorkflow"}

\* every request taken has one backend call, made for it, and once its call has
\* returned one Action
OneCallOneAction ==
    /\ Len(worker.called) = Len(worker.taken)
    /\ Len(worker.answered) + Len(worker.calls) = Len(worker.taken)
    /\ \A i \in 1..Len(worker.called) :
          /\ worker.called[i].request = worker.taken[i]
          /\ worker.called[i].op \in
                {"list_workflows", "describe_workflow", "get_history",
                 "list_namespaces", "count_workflows", "list_schedules",
                 "describe_schedule", "cancel_workflow", "terminate_workflow",
                 "patch_schedule", "trigger_schedule", "delete_schedule",
                 "describe_task_queue", "signal_workflow"}
    /\ \A i \in 1..Len(worker.answered) :
          worker.answered[i].request = worker.taken[i]

\* a failed call is answered by an Error that carries a message
FailureIsError(a) ==
    ~a.ok => /\ a.action.tag = "Error"
             /\ a.action.arg.text # ""
             /\ a.action.arg.arg = S_backend_error

\* the claim as stated: every successful call is answered by a typed "X loaded"
\* Action of the request's kind
C14_Original ==
    /\ OneCallOneAction
    /\ \A i \in 1..Len(worker.answered) :
          LET a == worker.answered[i]
          IN /\ FailureIsError(a)
             /\ a.ok => /\ a.request.tag \in DOMAIN LoadedFor
                        /\ a.action.tag = LoadedFor[a.request.tag]

\* C14: for each request taken the worker makes exactly one backend call and
\* sends exactly one Action: after a successful read the typed "X loaded"
\* Action of the request's kind, after a successful cancel, terminate, pause,
\* trigger, delete or signal the Refresh Action, and after a failure an Error
\* that carries a message
C14_OneCallOneAction ==
    /\ OneCallOneAction
    /\ \A i \in 1..Len(worker.answered) :
          LET a == worker.answered[i]
          IN /\ FailureIsError(a)
             /\ a.ok /\ a.request.tag \in DOMAIN LoadedFor =>
                   a.action.tag = LoadedFor[a.request.tag]
             /\ a.ok /\ a.request.tag \notin DOMAIN LoadedFor =>
                   /\ a.request.tag \in Mutating
                   /\ a.action = Act("Refresh")

\* a read that succeeded, a change that succeeded and a call that failed have
\* been answered
C14_Witness ==
    /\ \E i \in 1..Len(worker.answered) :
          worker.answered[i].ok /\ worker.answered[i].request.tag \in Mutating
    /\ \E i \in 1..Len(worker.answered) :
          /\ worker.answered[i].ok
          /\ worker.answered[i].request.tag \in DOMAIN LoadedFor
    /\ \E i \in 1..Len(worker.answered) : ~worker.answered[i].ok

(***************************************************************************)
(* C15  Deep-link parse errors are distinct per cause.                     *)
(***************************************************************************)
\* the route shapes of the grammar <kind>[/<id>[/<sub>[/<subid>]]], for the
\* two kinds and the sub-route each has
RouteOfGrammar(route) ==
    /\ Len(route) >= 1
    /\ \/ /\ route[1] = S_workflows
          /\ Len(route) <= 4
          /\ Len(route) >= 3 => route[3] = S_activities
       \/ /\ route[1] = S_schedules
          /\ Len(route) <= 3
          /\ Len(route) = 3 => route[3] = S_workflows

\* the outcome the causes give, the first that applies
ExpectedOutcome(p) ==
    IF p.scheme # Some(S_temporal) THEN "InvalidScheme"
    ELSE IF p.authority # S_tui THEN "InvalidAuthority"
    ELSE IF Len(p.head) < 2 /\ Len(p.head) + Len(p.route) < 2 THEN "MissingNamespace"
    ELSE IF (p.head \o p.route)[1] # S_namespaces THEN "MissingNamespace"
    ELSE IF Len(p.head) + Len(p.route) = 2 THEN "InvalidPath"
    ELSE IF RouteOfGrammar(SubSeq(p.head \o p.route, 3, Len(p.head) + Len(p.route)))
    THEN "Ok"
    ELSE "UnsupportedRoute"

Outcome(result) == IF result.ok THEN "Ok" ELSE result.error

\* C15: a URI whose scheme is missing or not `temporal` parses to
\* InvalidScheme; otherwise with an authority other than `tui` to
\* InvalidAuthority; otherwise with a path that does not begin with
\* namespaces/<ns> to MissingNamespace; otherwise with no route after the
\* namespace to InvalidPath; otherwise with an unknown kind or an unrecognized
\* route shape to UnsupportedRoute; and every URI of the grammar parses to Ok
C15_DistinctErrors ==
    codec.phase = "parsed" /\ "parts" \in DOMAIN codec =>
        Outcome(codec.result) = ExpectedOutcome(codec.parts)

(***************************************************************************)
(* C16  A deep link that fails leaves the session as it was.               *)
(***************************************************************************)
\* the command lines that open a link that does not parse, or no link
FailingOpens == { L_open(u) : u \in BadLinks } \cup { S_open }

\* the user submits one of them
SubmitsFailingOpen == \E line \in FailingOpens : Submits(line)

\* the fields a submitted command line always changes, set aside
BesidesCommandLine(s) ==
    [s EXCEPT !.last_error = None, !.input_mode = "Normal", !.input_buffer = << >>]

\* the texts of the toast
OpenErrors ==
    { "usage: :open temporal://tui/namespaces/<ns>/...",
      "invalid uri: invalid scheme", "invalid uri: invalid authority",
      "invalid uri: missing namespace", "invalid uri: invalid path",
      "invalid uri: unsupported route" }

C16_Step ==
    SubmitsFailingOpen =>
        /\ ~crashed'
        /\ effects' = << >>
        /\ requests' = requests
        /\ IsSome(app'.last_error)
        /\ app'.last_error[1].at = now
        /\ app'.last_error[1].msg.text \in OpenErrors
        /\ app'.input_mode = "Normal"
        /\ app'.input_buffer = << >>
        /\ BesidesCommandLine(app') = BesidesCommandLine(Drawn)

\* C16: submitting `:open <uri>` with a URI that does not parse, or `:open`
\* with no argument, emits no Effect, sets the error toast, returns the input
\* mode to Normal with an empty edit buffer, and leaves the view, the
\* namespace, the loaded collections, the cursors, the selected records, the
\* search queries and should_quit as they were
C16_FailedLink == [][C16_Step]_vars

\* a link that does not parse has been submitted on the detail view of a
\* workflow, with a search query set
C16_Witness ==
    /\ event.tag = "Key"
    /\ event.key = Some(KeyCode("Enter"))
    /\ IsSome(app.last_error)
    /\ app.last_error[1].msg.text = "invalid uri: unsupported route"
    /\ app.view = Detail("WorkflowExecution")
    /\ IsSome(app.selected_workflow)
    /\ IsSome(app.search_queries["WorkflowExecution"])
    /\ app.workflows.st = "Loaded"

(***************************************************************************)
(* C17  What an Error action does.                                         *)
(***************************************************************************)
\* the loop has received an Error; its message is that of the Action at the
\* head of the results queue
ErrorReceived == event'.tag = "Action" /\ event'.action = "Error"

\* the fields an Error may change, set aside
BesidesError(s) ==
    [s EXCEPT !.last_error = None, !.error_count = 0,
              !.connection_status = Connected,
              !.polling_interval = s.base_polling_interval]

\* the policy, on a reducer call that returns
ErrorPolicy(msg) ==
    /\ app'.last_error = Toast(msg, now)
    /\ app'.error_count = Drawn.error_count + 1
    /\ app'.connection_status =
          IF Drawn.connection_status = Connected THEN ConnectionError(msg)
          ELSE Drawn.connection_status
    /\ effects' = << >>
    /\ requests' = requests
    /\ ~app'.should_quit
    /\ BesidesError(app') = BesidesError(Drawn)

C17_Step == ErrorReceived => ~crashed' /\ ErrorPolicy(Head(results).arg)

\* C17: processing Error(msg) in any state sets the toast to msg with the
\* current time, increments error_count by one, changes connection_status to
\* Error(msg) if and only if it was Connected, emits no Effect, never sets
\* should_quit, and leaves the view, the overlay, the input mode, the loaded
\* collections, the cursors and the selected records unchanged
C17_ErrorPolicy == [][C17_Step]_vars

(***************************************************************************)
(* C18  A namespace switch resets the state scoped to the kinds.           *)
(***************************************************************************)
\* the three routes to another namespace: the picker, `:ns <name>`, a link
SwitchByPicker == \E ns \in { S_default, S_other } :
    KeyGives(ActArg("SwitchNamespace", ns))
SwitchByCommand == Submits(L_ns_other)
SwitchByLink ==
    \E ns \in { S_default, S_other } :
        /\ ns # Drawn.namespace
        /\ Submits(L_open(UriScheduleWorkflows(ns, << 97 >>, Some(<< 97 >>))))

\* the state scoped to the kinds is as at the start
KindStateReset(s) ==
    /\ s.workflows.st = "NotLoaded"
    /\ s.schedules.st = "NotLoaded"
    /\ s.workflow_table_state = None
    /\ s.schedule_table_state = None
    /\ s.selected_workflow = None
    /\ s.selected_schedule = None
    /\ s.next_page_token = << >>
    /\ ~s.loading_more

\* the initial load Effects of a collection
InitialLoads(kind) ==
    IF kind = "WorkflowExecution"
    THEN << Eff("LoadWorkflows"), Eff("LoadWorkflowCount") >>
    ELSE << Eff("LoadSchedules") >>

C18_Step ==
    /\ (SwitchByPicker \/ SwitchByCommand) =>
          /\ KindStateReset(app')
          /\ \A k \in KindId : app'.search_queries[k] = None
    /\ SwitchByPicker =>
          /\ app'.view = Collection(Drawn.view.kind)
          /\ effects' = InitialLoads(Drawn.view.kind)
    /\ SwitchByLink =>
          /\ KindStateReset(app')
          /\ app'.search_queries["Schedule"] = None
          /\ app'.view = Collection("WorkflowExecution")
          /\ effects' = InitialLoads("WorkflowExecution")

\* C18: after a namespace switch by any route (SwitchNamespace from the picker,
\* the `:ns <name>` command, or applying a deep link) every collection is
\* NotLoaded, both row cursors are unset, no workflow or schedule record is
\* selected, no kind has a search query (other than one set by the applied
\* link), the continuation token is empty and loading_more is false; the view
\* is the target view and the Effects returned are its initial load Effects
C18_NamespaceSwitch == [][C18_Step]_vars

(***************************************************************************)
(* C19  An open overlay takes every key.                                   *)
(***************************************************************************)
\* a key is handled with an overlay open
KeyOnOverlay == KeyHandled /\ Drawn.overlay # OverlayNone

\* the fields the overlays' own keys change, set aside
BesidesOverlay(s) ==
    [s EXCEPT !.last_error = None, !.overlay = OverlayNone,
              !.namespace_selector_state = None]

\* the keys that close Help and move in the picker
ClosesHelp(key) == key.code = "Esc" \/ IsChar(key, K_question) \/ IsChar(key, K_q)
MovesInPicker(key) ==
    key.code \in {"Down", "Up"}
    \/ (key.code = "Char" /\ key.ch \in {K_j, K_k, K_g, K_G})

\* Enter in the picker on a namespace of the list
PicksNamespace ==
    \E ns \in { S_default, S_other } : KeyGives(ActArg("SwitchNamespace", ns))

\* what the key may not do, whatever the overlay
NothingBehindOverlay ==
    /\ ~crashed'
    /\ ~app'.should_quit
    /\ ~HasEffect("Quit")
    /\ app'.input_mode = Drawn.input_mode
    /\ app'.input_buffer = Drawn.input_buffer
    /\ app'.workflow_detail_tab = Drawn.workflow_detail_tab
    /\ app'.detail_scroll = Drawn.detail_scroll
    /\ app'.overlay \in { Drawn.overlay, OverlayNone }
    /\ ~PicksNamespace =>
          /\ BesidesOverlay(app') = BesidesOverlay(Drawn)
          /\ app'.last_error \in { Drawn.last_error, None }

\* the keys of each overlay
HelpGrammar(key) ==
    /\ app'.overlay = IF ClosesHelp(key) THEN OverlayNone ELSE OverlayHelp
    /\ app'.namespace_selector_state = Drawn.namespace_selector_state
    /\ effects' = << >>
    /\ requests' = requests

ConfirmGrammar(key) ==
    /\ app'.overlay = IF Confirms(key) \/ Cancels(key) THEN OverlayNone
                      ELSE Drawn.overlay
    /\ app'.namespace_selector_state = Drawn.namespace_selector_state
    /\ IF Confirms(key)
       THEN Len(effects') = 1 /\ effects'[1].tag = Drawn.overlay.op
       ELSE effects' = << >> /\ requests' = requests

PickerGrammar(key) ==
    IF PicksNamespace
    THEN /\ app'.overlay = OverlayNone
         /\ app'.view = Collection(Drawn.view.kind)
    ELSE /\ app'.overlay = IF key.code = "Esc" THEN OverlayNone
                           ELSE OverlayNamespaceSelector
         /\ ~MovesInPicker(key) =>
               app'.namespace_selector_state = Drawn.namespace_selector_state
         /\ effects' = << >>
         /\ requests' = requests

C19_Step ==
    KeyOnOverlay =>
        /\ NothingBehindOverlay
        /\ Drawn.overlay = OverlayHelp => HelpGrammar(event'.key[1])
        /\ Drawn.overlay.tag = "Confirm" => ConfirmGrammar(event'.key[1])
        /\ Drawn.overlay = OverlayNamespaceSelector => PickerGrammar(event'.key[1])

\* C19: while an overlay (Help, Confirm, NamespaceSelector) is open every key is
\* handled by that overlay's keys alone: no key quits, moves in a collection,
\* selects, switches tab, enters text, opens the command or search input or
\* starts an operation of the kind; Help closes on Escape, `?` or `q` and
\* ignores every other key
C19_OverlayPrecedence == [][C19_Step]_vars

\* `c`, the key that cancels a workflow, has been pressed with Help open over
\* the loaded workflow collection, and Help is still open
C19_Witness ==
    /\ event.tag = "Key"
    /\ event.key = Some(KeyChar(K_c))
    /\ app.overlay = OverlayHelp
    /\ app.view = Collection("WorkflowExecution")
    /\ app.workflows.st = "Loaded"
    /\ IsSome(app.workflow_table_state)

(***************************************************************************)
(* C20  The key after `g` ends the chord.                                  *)
(***************************************************************************)
\* a key is handled while the chord is pending
KeyOnPendingG ==
    KeyHandled /\ Drawn.overlay = OverlayNone /\ Drawn.input_mode = "PendingG"

\* the state after a jump to the top of the view drawn
JumpedToTop ==
    IF Drawn.view.tag = "Detail"
    THEN app'.detail_scroll = 0
    ELSE IF Drawn.view.kind = "WorkflowExecution"
    THEN app'.workflow_table_state = select_first(Drawn.workflow_table_state)
    ELSE app'.schedule_table_state = select_first(Drawn.schedule_table_state)

\* the fields the chord is about, set aside
BesidesChord(s) == [s EXCEPT !.last_error = None, !.input_mode = "Normal"]

C20_Step ==
    KeyOnPendingG =>
        /\ ~crashed'
        /\ app'.input_mode = "Normal"
        /\ IF IsChar(event'.key[1], K_g)
           THEN JumpedToTop
           ELSE /\ BesidesChord(app') = BesidesChord(Drawn)
                /\ effects' = << >>
                /\ requests' = requests

\* C20: after `g` has put the input mode in PendingG the very next key ends the
\* chord and returns the input mode to Normal, in collection and detail views
\* alike: a second `g` jumps to the top, and any other key cancels the chord
\* and changes nothing else, neither the view nor the cursor nor the selected
\* record
C20_ChordResolution == [][C20_Step]_vars

(***************************************************************************)
(* C21  The reducer is total.                                              *)
(***************************************************************************)
\* the loop has called the reducer: for a key, a tick or an Action received
ReducerCalled == event'.tag \in {"Key", "Tick", "Action"}

C21_Step == ReducerCalled => ~crashed'

\* C21: in every reachable state and for every Action, update returns a next
\* state and a list of Effects without faulting: no panic, no arithmetic
\* overflow, no index out of range
C21_ReducerTotal == [][C21_Step]_vars

(***************************************************************************)
(* C22  The row cursors are valid indices.                                 *)
(***************************************************************************)
\* a cursor is unset or an index into the rows loaded
ValidCursor(selected, collection) ==
    IF selected = None THEN TRUE
    ELSE IF ~IsSome(data(collection)) THEN FALSE
    ELSE selected[1] < Len(collection.data)

DrawnCursorValid ==
    /\ (Drawn.view = Collection("WorkflowExecution") /\ IsSome(data(Drawn.workflows)))
          => /\ ValidCursor(Drawn.workflow_table_state, Drawn.workflows)
             /\ Drawn.workflows.data = << >> => Drawn.workflow_table_state = None
    /\ (Drawn.view = Collection("Schedule") /\ IsSome(data(Drawn.schedules)))
          => /\ ValidCursor(Drawn.schedule_table_state, Drawn.schedules)
             /\ Drawn.schedules.data = << >> => Drawn.schedule_table_state = None

\* what the reducer does to a cursor when its collection is replaced
KeptOrFirst(selected) == IF selected = None THEN Some(0) ELSE selected

C22_Step ==
    /\ (event'.tag = "Action" /\ event'.action = "WorkflowsLoaded")
          => /\ app'.workflow_table_state = KeptOrFirst(Drawn.workflow_table_state)
             /\ app'.schedule_table_state = Drawn.schedule_table_state
    /\ (event'.tag = "Action" /\ event'.action = "SchedulesLoaded")
          => /\ app'.schedule_table_state = KeptOrFirst(Drawn.schedule_table_state)
             /\ app'.workflow_table_state = Drawn.workflow_table_state

ShownCursor(s) ==
    IF s.view.kind = "WorkflowExecution"
    THEN s.workflow_table_state ELSE s.schedule_table_state
ShownRows(s) ==
    IF s.view.kind = "WorkflowExecution"
    THEN (IF IsSome(data(s.workflows)) THEN s.workflows.data ELSE << >>)
    ELSE (IF IsSome(data(s.schedules)) THEN s.schedules.data ELSE << >>)

\* the single steps of the claim on a cursor i over n rows, and their repetition
StepDown(i, n) == IF i + 1 < n - 1 THEN i + 1 ELSE n - 1
StepUp(i, n) == IF i - 1 > 0 THEN i - 1 ELSE 0
RECURSIVE Repeated(_, _, _, _)
Repeated(down, times, i, n) ==
    IF times = 0 THEN i
    ELSE Repeated(down, times - 1, IF down THEN StepDown(i, n) ELSE StepUp(i, n), n)

\* a navigation key handled on a collection drawn with rows and a cursor
MovesOnRows ==
    /\ KeyHandled
    /\ Drawn.view.tag = "Collection"
    /\ ShownRows(Drawn) # << >>
    /\ IsSome(ShownCursor(Drawn))

\* the cursor drawn after the key
MovedTo == ShownCursor(render(app'))

C23_Step ==
    /\ MovesOnRows =>
          LET i == ShownCursor(Drawn)[1]
              n == Len(ShownRows(Drawn))
          IN /\ KeyGives(Act("NavigateDown")) => MovedTo = Some(StepDown(i, n))
             /\ KeyGives(Act("NavigateUp")) => MovedTo = Some(StepUp(i, n))
             /\ KeyGives(Act("NavigateTop")) => MovedTo = Some(0)
             /\ KeyGives(Act("NavigateBottom")) => MovedTo = Some(n - 1)
             /\ KeyGives(Act("PageDown"))
                   => MovedTo = Some(Repeated(TRUE, page_height, i, n))
             /\ KeyGives(Act("PageUp"))
                   => MovedTo = Some(Repeated(FALSE, page_height, i, n))
             /\ (\E a \in {"NavigateDown", "NavigateUp", "NavigateTop",
                           "NavigateBottom", "PageDown", "PageUp"} :
                    KeyGives(Act(a)))
                   => /\ ~crashed'
                      /\ MovedTo[1] \in 0..(n - 1)
                      /\ ShownRows(app') = ShownRows(Drawn)
    /\ (/\ KeyHandled
        /\ Drawn.view.tag = "Collection"
        /\ ShownRows(Drawn) = << >>
        /\ KeyGives(Act("NavigateDown")) \/ KeyGives(Act("PageDown")))
          => /\ ~crashed'
             /\ ShownCursor(app') = ShownCursor(Drawn)

Enqueued == worker.taken \o requests
Applied == Len(worker.answered) - Len(results)

\* the request an effect is sent as
RequestTag(effect) ==
    IF effect.tag = "LoadTaskQueueDetail" THEN "DescribeTaskQueue" ELSE effect.tag

\* the effects of the reducer call that reach the worker
Emitted == SelectSeq(effects', LAMBDA effect : effect.tag # "Quit")

\* the answers are those of the requests enqueued, in their order, and the
\* results queue holds the ones not applied yet
C24_InOrder ==
    /\ Applied >= 0
    /\ Len(worker.answered) <= Len(Enqueued)
    /\ \A i \in 1..Len(worker.answered) : worker.answered[i].request = Enqueued[i]
    /\ results = AnswersFrom(Applied)

C24_Step ==
    /\ (event'.tag = "Action" /\ ~crashed') =>
          /\ Applied < Len(worker.answered)
          /\ app' = update(Drawn, worker.answered[Applied + 1].action, now).app
          /\ results' = Tail(results)
    /\ (ReducerCalled /\ ~crashed') =>
          /\ requests' = requests \o Sent
          /\ Len(Sent) = Len(Emitted)
          /\ \A i \in 1..Len(Sent) :
                /\ Sent[i].tag = RequestTag(Emitted[i])
                /\ Emitted[i].tag \in {"LoadWorkflowDetail", "LoadHistory"}
                      => /\ Sent[i].workflow_id = Emitted[i].id
                         /\ Sent[i].run_id = Emitted[i].run_id
    /\ ~ReducerCalled => app' = app

\* C24: the k-th Action the reducer applies is the answer to the k-th request
\* enqueued; the requests of the Effects of one reducer call are enqueued
\* together behind the requests waiting, in the order the reducer emitted
\* them; so the results of one call's Effects are applied in emission order
\* (the detail of a Select before its history) with no result of a later call
\* between them
C24_EndToEndOrder == []C24_InOrder /\ [][C24_Step]_vars

\* the history of a Select has just been applied, its detail was applied just
\* before it, and the request of a later key waits behind
C24_Witness ==
    /\ event.tag = "Action"
    /\ Applied >= 2
    /\ worker.answered[Applied].request.tag = "LoadHistory"
    /\ worker.answered[Applied - 1].request.tag = "LoadWorkflowDetail"
    /\ worker.answered[Applied].ok
    /\ worker.answered[Applied - 1].ok
    /\ Len(Enqueued) > Applied

(***************************************************************************)
(* C25  A response that arrives after the user has moved on.                *)
(***************************************************************************)
\* the workflow opened last: the one of the latest detail request enqueued
DetailRequests == SelectSeq(Enqueued, LAMBDA r : r.tag = "LoadWorkflowDetail")
OpenedLast ==
    IF DetailRequests = << >> THEN None
    ELSE Some(DetailRequests[Len(DetailRequests)].workflow_id)

\* the answer the loop receives next, and whether the user has left its workflow
NextAnswer == worker.answered[Applied + 1]
Superseded ==
    /\ event'.tag = "Action"
    /\ ~crashed'
    /\ NextAnswer.request.tag \in {"LoadWorkflowDetail", "LoadHistory"}
    /\ \/ Drawn.view = Collection("WorkflowExecution")
       \/ /\ Drawn.view = Detail("WorkflowExecution")
          /\ OpenedLast # Some(NextAnswer.request.workflow_id)

\* the record a workflow detail view shows is the one opened
ShowsOpened ==
    (app.view = Detail("WorkflowExecution") /\ IsSome(app.selected_workflow))
        => Some(app.selected_workflow[1].summary.workflow_id) = OpenedLast

C25_Step ==
    /\ Superseded =>
          /\ app'.view = Drawn.view
          /\ app'.workflow_detail_tab = Drawn.workflow_detail_tab
          /\ app'.overlay = Drawn.overlay
          /\ Drawn.view = Detail("WorkflowExecution")
                => /\ app'.selected_workflow = Drawn.selected_workflow
                   /\ app'.workflow_history = Drawn.workflow_history
    /\ (/\ KeyHandled
        /\ Drawn.view = Detail("WorkflowExecution")
        /\ app'.overlay.tag = "Confirm"
        /\ Drawn.overlay.tag # "Confirm")
          => Some(app'.overlay.target.id) = OpenedLast

\* C25: a detail or history response for a workflow the user has left (back on
\* the collection, or in the detail view of another workflow) changes neither
\* the view nor what the detail view shows; the record a workflow detail view
\* shows is the one that was opened, and a cancel or terminate invoked there
\* targets it
C25_SupersededHarmless == [](~crashed => ShowsOpened) /\ [][C25_Step]_vars

(***************************************************************************)
(* C26  An operation needs a selected row or record.                        *)
(***************************************************************************)
\* the reducer has been handed RunOperation(op), by a key or by its caller
RunsOperation(op) ==
    \/ KeyGives(ActArg("RunOperation", op))
    \/ event'.tag = "Operation" /\ event'.action = op

\* the operation belongs to the kind of the view drawn
OfShownKind(op) ==
    LET ops == kind_operations(Drawn.view.kind)
    IN \E i \in 1..Len(ops) : ops[i].id = op

\* nothing is selected in the view drawn: no loaded rows, no cursor or a
\* cursor past the rows in a collection, no record in a detail view
NothingSelected ==
    IF Drawn.view.tag = "Collection"
    THEN \/ ShownCursor(Drawn) = None
         \/ ShownRows(Drawn) = << >>
         \/ ShownCursor(Drawn)[1] >= Len(ShownRows(Drawn))
    ELSE IF Drawn.view.kind = "WorkflowExecution"
    THEN Drawn.selected_workflow = None
    ELSE Drawn.selected_schedule = None

NothingSelectedToast ==
    Toast(Msg(IF Drawn.view.kind = "WorkflowExecution"
              THEN "no workflow selected" ELSE "no schedule selected", << >>), now)

C26_Step ==
    \A op \in OperationId :
       RunsOperation(op) =>
          /\ ~crashed'
          /\ (OfShownKind(op) /\ NothingSelected) =>
                /\ effects' = << >>
                /\ requests' = requests
                /\ app'.overlay = Drawn.overlay
                /\ app' = [Drawn EXCEPT !.last_error = NothingSelectedToast]
          /\ ~OfShownKind(op) =>
                /\ effects' = << >>
                /\ requests' = requests
                /\ app' = Drawn

\* C26: RunOperation for an operation of the kind shown, handled when no row
\* (collection not loaded or empty, cursor unset or out of range) or no record
\* (detail view) is selected, returns no Effect, opens no overlay and sets
\* the error toast, changing nothing else; RunOperation for an operation of
\* another kind returns no Effect and changes nothing
C26_NeedsSelection == [][C26_Step]_vars

\* cancel was pressed in a workflow detail view whose record had not arrived
C26_Witness ==
    /\ event.tag = "Key"
    /\ event.key = Some(KeyChar(K_c))
    /\ app.view = Detail("WorkflowExecution")
    /\ app.selected_workflow = None
    /\ app.overlay = OverlayNone
    /\ app.last_error = Toast(Msg("no workflow selected", << >>), now)

(***************************************************************************)
(* C27  Pausing and unpausing a schedule needs no confirmation.             *)
(***************************************************************************)
\* the schedule selected in the view drawn: the row under the cursor of the
\* list, the record of the detail view
SelectedSchedule ==
    IF Drawn.view = Collection("Schedule")
    THEN (IF IsSome(ShownCursor(Drawn))
          THEN Get(ShownRows(Drawn), ShownCursor(Drawn)[1]) ELSE None)
    ELSE IF Drawn.view = Detail("Schedule") THEN Drawn.selected_schedule
    ELSE None

PausesSelected ==
    /\ RunsOperation("PauseSchedule")
    /\ IsSome(SelectedSchedule)

C27_Step ==
    PausesSelected =>
        LET schedule == SelectedSchedule[1]
            effect == [tag |-> "PauseSchedule", id |-> schedule.schedule_id,
                       pause |-> (schedule.state # "Paused")]
        IN /\ ~crashed'
           /\ app'.overlay = Drawn.overlay
           /\ effects' = << effect >>
           /\ Sent = << [tag |-> "PauseSchedule", namespace |-> Drawn.namespace,
                         schedule_id |-> schedule.schedule_id,
                         pause |-> (schedule.state # "Paused")] >>

\* C27: RunOperation for pause/unpause, with a schedule selected in the
\* schedule list or in the schedule detail view, opens no overlay and in the
\* same reducer step returns exactly one PauseSchedule(schedule_id, pause)
\* Effect for the selected schedule, with pause true exactly when that
\* schedule's state is not Paused
C27_PauseImmediate == [][C27_Step]_vars

(***************************************************************************)
(* C28  Select opens the row under the cursor and asks for its data.        *)
(***************************************************************************)
Selects == KeyGives(Act("Select"))
SelectsRow == Selects /\ Drawn.view.tag = "Collection" /\ ~NothingSelected
SelectedRow == ShownRows(Drawn)[ShownCursor(Drawn)[1] + 1]

\* the Effects of a Select on the row, and the requests they are sent as
SelectEffects ==
    IF Drawn.view.kind = "WorkflowExecution"
    THEN << EffWf("LoadWorkflowDetail", SelectedRow.workflow_id,
                  Some(SelectedRow.run_id)),
            EffWf("LoadHistory", SelectedRow.workflow_id, Some(SelectedRow.run_id)) >>
    ELSE << EffSch("LoadScheduleDetail", SelectedRow.schedule_id) >>

\* what a Select on a row does in either kind
OpensRow ==
    /\ ~crashed'
    /\ app'.view = Detail(Drawn.view.kind)
    /\ app'.detail_scroll = 0
    /\ effects' = SelectEffects
    /\ Sent = handle_effects(SelectEffects, Drawn)

\* a Select with nothing to open
SelectsNothing ==
    (Selects /\ (Drawn.view.tag = "Detail" \/ NothingSelected))
        => /\ ~crashed'
           /\ app' = Drawn
           /\ effects' = << >>
           /\ requests' = requests

\* the claim as stated: the tab index is 0 after a Select in either kind
C28_Original ==
    [][/\ SelectsRow => (OpensRow /\ app'.workflow_detail_tab = 0)
       /\ SelectsNothing]_vars

C28_Step ==
    /\ SelectsRow =>
          /\ OpensRow
          /\ app'.workflow_detail_tab =
                IF Drawn.view.kind = "WorkflowExecution" THEN 0
                ELSE Drawn.workflow_detail_tab
    /\ SelectsNothing

\* C28: Select in a collection view with a valid selected row switches to
\* that kind's detail view, sets the scroll offset to 0 and returns, in this
\* order, [LoadWorkflowDetail(id, run), LoadHistory(id, run)] for a workflow
\* and [LoadScheduleDetail(id)] for a schedule; the tab index is set to 0 by
\* the Select of a workflow and left as it was by the Select of a schedule,
\* whose detail view has no tabs; Select with no valid selected row, or in a
\* detail view, changes nothing and returns nothing
C28_SelectFetch == [][C28_Step]_vars

\* a workflow has been opened again after its detail view was left on
\* another tab: the tab is back to 0 and both requests are on their way
C28_Witness ==
    /\ event.tag = "Key"
    /\ event.key = Some(KeyCode("Enter"))
    /\ app.view = Detail("WorkflowExecution")
    /\ app.workflow_detail_tab = 0
    /\ Len(effects) = 2

(***************************************************************************)
(* C29  The data of a tab is asked for when the tab is entered.             *)
(***************************************************************************)
SwitchesTab ==
    /\ Drawn.view = Detail("WorkflowExecution")
    /\ KeyGives(Act("NextTab")) \/ KeyGives(Act("PrevTab"))

\* the workflow the detail view was opened on: the row under the cursor of
\* the list behind it
ViewedWorkflow == Get(Drawn.workflows.data, Drawn.workflow_table_state[1])

C29_Step ==
    SwitchesTab =>
        /\ ~crashed'
        /\ app'.detail_scroll = 0
        /\ app'.workflow_detail_tab = 2
              => effects' = << EffWf("LoadHistory", ViewedWorkflow[1].workflow_id,
                                     Some(ViewedWorkflow[1].run_id)) >>
        /\ app'.workflow_detail_tab = 4
              => effects' = << [tag |-> "LoadTaskQueueDetail",
                                task_queue |-> ViewedWorkflow[1].task_queue] >>
        /\ app'.workflow_detail_tab \notin {2, 4} => effects' = << >>

\* C29: in the workflow detail view every NextTab or PrevTab resets the
\* scroll offset to 0 and returns LoadHistory for the viewed workflow when
\* the new tab is History, LoadTaskQueueDetail for its task queue when the
\* new tab is Task Queue and no Effect for any other tab, also when the
\* detail response of the workflow has not been applied yet
C29_LazyTabs == [][C29_Step]_vars

(***************************************************************************)
(* C30  A toast lasts five seconds, and only an Action removes it.          *)
(***************************************************************************)
\* the reducer has processed an Action: a tick, an Action received, or a key
\* that the key map turns into one
ActionProcessed ==
    \/ event'.tag \in {"Tick", "Action"}
    \/ KeyHandled /\ IsSome(key_action(Drawn, event'.key[1]))

\* the step has recorded a toast
RecordsToast == IsSome(app'.last_error) /\ app'.last_error[1].at = now'

C30_Step ==
    /\ (ActionProcessed /\ IsSome(Drawn.last_error) /\ ~crashed') =>
          IF now' - Drawn.last_error[1].at <= 5
          THEN \/ app'.last_error = Drawn.last_error
               \/ RecordsToast
               \/ KeyGives(Act("ClearError"))
          ELSE \/ app'.last_error = None
               \/ RecordsToast
    /\ ~ActionProcessed => app'.last_error = app.last_error
    /\ IsSome(app'.last_error) => app'.last_error[1].at <= now'

\* C30: a toast recorded at time t is still present after any Action
\* processed at a time <= t + 5 s, unless the Action is ClearError or records
\* a new toast, and is absent after any Action processed at a time > t + 5 s
\* unless that Action records a new toast; a step that processes no Action
\* leaves the toast as it is
C30_ToastExpiry == [][C30_Step]_vars

\* the toast of a failed call, the last Action received, is gone after a
\* tick: the ticks before it, up to five seconds after the failure, left it
C30_Witness ==
    /\ event.tag = "Tick"
    /\ event.errors.n = 1
    /\ app.error_count = 1
    /\ app.last_error = None

(***************************************************************************)
(* C31  Submitting a command line or a search.                              *)
(***************************************************************************)
\* Enter pressed on a search being typed
SubmitsSearch ==
    /\ KeyHandled
    /\ event'.key[1].code = "Enter"
    /\ Drawn.overlay = OverlayNone
    /\ Drawn.input_mode = "Search"

\* the state with the fields a submitted line always resets, and the toast,
\* set aside
BesidesEntry(s) ==
    [s EXCEPT !.input_mode = "Normal", !.input_buffer = << >>, !.last_error = None]

OtherKind(kind) == IF kind = "WorkflowExecution" THEN "Schedule" ELSE "WorkflowExecution"

C31_Step ==
    /\ (\E line \in SubmitKeys.lines : Submits(line)) =>
          /\ ~crashed'
          /\ app'.input_mode = "Normal"
          /\ app'.input_buffer = << >>
    /\ Submits(S_sch) =>
          /\ app'.view = Collection("Schedule")
          /\ effects' = << Eff("LoadSchedules") >>
    /\ Submits(S_wf) =>
          /\ app'.view = Collection("WorkflowExecution")
          /\ effects' = << Eff("LoadWorkflows") >>
    /\ Submits(L_help_capital) =>
          /\ app'.overlay = OverlayHelp
          /\ effects' = << >>
    /\ (Submits(L_unknown) \/ Submits(<< >>)) =>
          /\ effects' = << >>
          /\ requests' = requests
          /\ app'.last_error = Toast(Msg("unknown command: ", Drawn.input_buffer), now)
          /\ BesidesEntry(app') = BesidesEntry(Drawn)
    /\ SubmitsSearch =>
          LET kind == Drawn.view.kind
              q == Drawn.input_buffer
          IN /\ ~crashed'
             /\ app'.input_mode = "Normal"
             /\ app'.input_buffer = << >>
             /\ app'.search_queries[kind] = IF q = << >> THEN None ELSE Some(q)
             /\ app'.search_queries[OtherKind(kind)]
                   = Drawn.search_queries[OtherKind(kind)]
             /\ effects' = IF kind = "WorkflowExecution"
                           THEN << Eff("LoadWorkflows"), Eff("LoadWorkflowCount") >>
                           ELSE << Eff("LoadSchedules") >>
             /\ Sent = handle_effects(effects', app')

ScrollsTo(action, offset) ==
    (is_detail_view(Drawn) /\ KeyGives(Act(action))) =>
        /\ ~crashed'
        /\ offset \in 0..U16_MAX
        /\ [app' EXCEPT !.last_error = None]
              = [Drawn EXCEPT !.detail_scroll = offset, !.last_error = None]
        /\ effects' = << >>
        /\ requests' = requests

C32_Step ==
    LET at == Drawn.detail_scroll
    IN /\ ScrollsTo("NavigateUp", IF at >= 1 THEN at - 1 ELSE 0)
       /\ ScrollsTo("NavigateDown", IF at + 1 <= U16_MAX THEN at + 1 ELSE U16_MAX)
       /\ ScrollsTo("NavigateTop", 0)
       /\ ScrollsTo("NavigateBottom", U16_MAX)
       /\ ScrollsTo("PageUp", IF at >= 20 THEN at - 20 ELSE 0)
       /\ ScrollsTo("PageDown", IF at + 20 <= U16_MAX THEN at + 20 ELSE U16_MAX)

\* C32: in a detail view NavigateUp, NavigateDown, NavigateTop,
\* NavigateBottom, PageUp and PageDown change only the scroll offset, by one
\* line, by a page of 20 lines or to an end, saturating within 0..65535; they
\* move no row cursor and return no load-more Effect
C32_DetailScroll == [][C32_Step]_vars

\* a page down at the bottom of the detail of a workflow whose collection has
\* a further page and no load-more under way
C32_Witness ==
    /\ event.tag = "Key"
    /\ event.key = Some(KeyCtrl(K_d))
    /\ app.view = Detail("WorkflowExecution")
    /\ app.detail_scroll = U16_MAX
    /\ app.next_page_token # << >>
    /\ ~app.loading_more
    /\ IsSome(app.workflow_table_state)
    /\ app.workflow_table_state[1] + 5 >= 2

(***************************************************************************)
(* C33  Load-more requests outstanding.                                     *)
(***************************************************************************)
\* the load-more requests sent whose answer has not been applied: those the
\* worker has not answered and those whose answer waits in the channel
LoadMoreOutstanding ==
    Cardinality({i \in 1..Len(requests) : requests[i].tag = "LoadMoreWorkflows"})
       + Cardinality({i \in 1..Len(results) : results[i].tag = "MoreWorkflowsLoaded"})

\* C33: at any time at most one LoadMoreWorkflows request has been sent
\* without its result having been applied, also when the result of a
\* LoadWorkflows that the timer caused is applied in between
C33_OneLoadMore == LoadMoreOutstanding <= 1

(***************************************************************************)
(* C34  Pacing of the polls.                                                *)
(***************************************************************************)
\* a Tick has been handled and has returned Effects
TickEmitted == event.tag = "Tick" /\ effects # << >>
TickEmits == event'.tag = "Tick" /\ effects' # << >>

C34_Step ==
    /\ (TickEmits /\ Drawn.polling_enabled) =>
          /\ effects' = refresh_current_view(Drawn)
          /\ IF Drawn.last_refresh = None THEN TRUE
             ELSE duration_ge(now' - Drawn.last_refresh[1], Drawn.polling_interval)
    /\ (event'.tag = "Tick" /\ ~Drawn.polling_enabled) => effects' = << >>
    /\ (TickEmitted /\ TickEmits) =>
          duration_ge(now' - now, Drawn.polling_interval)

\* C34: with polling enabled a Tick returns the refresh Effects of the view
\* only if no refresh has completed yet or at least polling_interval has
\* elapsed since the last one, and two Ticks in a row that both return
\* refresh Effects are at least polling_interval apart, also under backoff
\* and in a detail view; with polling disabled a Tick returns no Effect
C34_PollPacing == [][C34_Step]_vars

(***************************************************************************)
(* C35  Every request is answered and its Action applied.                   *)
(***************************************************************************)
\* the worker has produced one Action for each request whose call returned,
\* and holds the others
OneActionEach ==
    /\ Len(worker.answered) + Len(worker.calls) = Len(worker.taken)
    /\ Len(results) <= Len(worker.answered)

\* the n-th request sent has been taken, answered, and its Action applied
AppliedUpTo(n) ==
    /\ Len(worker.taken) >= n
    /\ Len(worker.answered) >= n
    /\ Applied >= n

\* C35: when backend calls return and the main loop and the worker are
\* scheduled fairly, every request the main loop sends is eventually taken by
\* the worker, yields exactly one Action in the result channel, and that
\* Action is eventually applied by the reducer, unless the user has quit
C35_Answered ==
    /\ [] OneActionEach
    /\ \A n \in 1..MaxSent :
          (Len(Enqueued) >= n) ~> (AppliedUpTo(n) \/ app.should_quit)

\* the last of MaxSent requests has been applied after a call has failed
C35_Witness ==
    /\ AppliedUpTo(MaxSent)
    /\ event.tag = "Action"
    /\ ~app.should_quit
    /\ \E i \in 1..Len(worker.answered) : ~worker.answered[i].ok

(***************************************************************************)
(* C36  The target of a confirmation.                                       *)
(***************************************************************************)
ConfirmOpen == Drawn.overlay.tag = "Confirm"

C36_Step ==
    /\ (ConfirmOpen /\ event'.tag \in {"Tick", "Action"}) =>
          /\ ~crashed'
          /\ app'.overlay = Drawn.overlay
    /\ (~ConfirmOpen /\ app'.overlay.tag = "Confirm") =>
          /\ KeyHandled
          /\ IsSome(SelectedTarget(Drawn))
          /\ app'.overlay.kind = current_kind_id(Drawn)
          /\ app'.overlay.target = SelectedTarget(Drawn)[1]
    /\ (ConfirmOpen /\ KeyHandled /\ Confirms(event'.key[1])) =>
          /\ effects' = << StoredEffect(Drawn.overlay) >>
          /\ Sent = << StoredRequest(Drawn.overlay, Drawn.namespace) >>

JumpsToBottom ==
    /\ KeyGives(Act("NavigateBottom"))
    /\ Drawn.view = Collection("WorkflowExecution")
    /\ IsSome(data(Drawn.workflows))
    /\ Len(Drawn.workflows.data) >= 1
    /\ Drawn.next_page_token # << >>
    /\ ~Drawn.loading_more

C37_Step ==
    JumpsToBottom =>
        /\ ~crashed'
        /\ app'.loading_more
        /\ effects' = << Eff("LoadMoreWorkflows") >>

\* C37: NavigateBottom on the workflow list with at least one row loaded, a
\* non-empty continuation token and loading_more false sets loading_more and
\* returns exactly one LoadMoreWorkflows Effect, and `selected + 5` does not
\* overflow
C37_BottomLooksAhead == [][C37_Step]_vars

(***************************************************************************)
(* C38  The location of a state restores its view.                          *)
(***************************************************************************)
\* a collection view, or a detail view whose record has been loaded
Restorable(s) ==
    \/ s.view.tag = "Collection"
    \/ s.view = Detail("WorkflowExecution") /\ IsSome(s.selected_workflow)
    \/ s.view = Detail("Schedule") /\ IsSome(s.selected_schedule)

\* the record a detail view is about
RecordShown(s) ==
    IF s.view = Detail("WorkflowExecution") THEN s.selected_workflow
    ELSE IF s.view = Detail("Schedule") THEN s.selected_schedule
    ELSE None

\* C38: for a reachable state s that shows a collection or a loaded record,
\* apply_location(s.location()) on s gives a state with the same namespace,
\* the same view on the same record, the same search query of the kind shown
\* and the same detail tab
C38_LocationRestores ==
    (codec.phase = "restored" /\ Restorable(codec.from)) =>
        /\ codec.to.namespace = codec.from.namespace
        /\ codec.to.view = codec.from.view
        /\ RecordShown(codec.to) = RecordShown(codec.from)
        /\ current_search_query(codec.to) = current_search_query(codec.from)
        /\ codec.to.workflow_detail_tab = codec.from.workflow_detail_tab

(***************************************************************************)
(* C39  Overlays and text entry.                                            *)
(***************************************************************************)
\* C39: in every reachable state with an overlay open (Help, Confirm or the
\* namespace picker) the input mode is Normal: no overlay is open in Command,
\* Search or PendingG mode, whichever came first
C39_OverlayInNormal == app.overlay # OverlayNone => app.input_mode = "Normal"

\* the help has been opened from the command line, with `:H` and Enter
C39_Witness ==
    /\ event.tag = "Key"
    /\ event.key = Some(KeyCode("Enter"))
    /\ app.overlay = OverlayHelp
    /\ app.input_mode = "Normal"
    /\ app.input_buffer = << >>

(***************************************************************************)
(* C40  The answers of the worker and the focus.                            *)
(***************************************************************************)
\* the Actions CliWorker::process returns
WorkerActions ==
    { "WorkflowsLoaded", "MoreWorkflowsLoaded", "WorkflowCountLoaded",
      "WorkflowDetailLoaded", "HistoryLoaded", "TaskQueueDetailLoaded",
      "SchedulesLoaded", "ScheduleDetailLoaded", "NamespacesLoaded",
      "Refresh", "Error" }

\* what the user is looking at and typing into
Focus(s) ==
    [ view |-> s.view, input_mode |-> s.input_mode, overlay |-> s.overlay,
      input_buffer |-> s.input_buffer, namespace |-> s.namespace,
      search_queries |-> s.search_queries ]

C40_Step ==
    event'.tag = "Action" =>
        /\ event'.action \in WorkerActions
        /\ ~crashed'
        /\ Focus(app') = Focus(app)

====
